---- MODULE Spec2Model ----
(***************************************************************************)
(* A model of the OpenAPI viewer (src/app/page.tsx and its collaborators): *)
(* the JSON text -> Document pipeline (JSON.parse, the zod shape), the tag *)
(* index pathsByTag, the example synthesizer generateExampleFromSchema,    *)
(* the request/response example extractors of PathItem, and the React      *)
(* state machine of OpenAPIPage (debounced parsing, persistence, effects). *)
(*                                                                         *)
(* JavaScript values are modelled as tagged records, so that values of     *)
(* different JavaScript types can be compared: an object is the sequence   *)
(* of its own <<key, value>> entries in JavaScript's own-property order.   *)
(***************************************************************************)
EXTENDS Integers, Sequences, FiniteSets, TLC

VARIABLES
  pc,      \* position of the pure-function harness: "ready" | "done" ("page" for the page)
  arg,     \* the input handed to the function under study
  out,     \* its result
  mounted, \* OpenAPIPage is mounted
  ui,      \* the React state of OpenAPIPage (one field per useState)
  storage, \* localStorage['openapi-viewer-state']: the saved record, or Null
  timers,  \* the pending setTimeout callbacks of the debounce effect, by captured text
  reads,   \* the FileReaders of the page, in the order their files were handed to it
  last     \* what the last step did: the handler, the texts it parsed, the timers it cleared
           \* (and for a mount, the record it loaded)

pureVars == <<pc, arg, out>>

pageVars == <<mounted, ui, storage, timers, reads, last>>

vars == <<pc, arg, out, mounted, ui, storage, timers, reads, last>>

-----------------------------------------------------------------------------
(* JavaScript values *)

Undefined == [k |-> "undefined"]
Null == [k |-> "null"]
Bool(b) == [k |-> "boolean", b |-> b]
Num(n) == [k |-> "number", n |-> n]
Str(s) == [k |-> "string", s |-> s]
Arr(a) == [k |-> "array", a |-> a]
Obj(e) == [k |-> "object", e |-> e]

\* Exceptions travel as values: a call that throws yields the thrown error.
RangeError == [k |-> "RangeError"]
TypeError == [k |-> "TypeError"]

Thrown(v) == v.k \in {"RangeError", "TypeError"}

\* if (x) ...
Truthy(v) ==
  CASE v.k \in {"undefined", "null"} -> FALSE
    [] v.k = "boolean" -> v.b
    [] v.k = "number" -> v.n # 0
    [] v.k = "string" -> v.s # ""
    [] OTHER -> TRUE

\* x ?? y takes y exactly when x is null or undefined
Nullish(v) == v.k \in {"undefined", "null"}

Coalesce(v, w) == IF Nullish(v) THEN w ELSE v

\* typeof x === 'object' (true of objects, arrays and null)
TypeofObject(v) == v.k \in {"object", "array", "null"}

\* The canonical array-index strings of the model, in numeric order:
\* IndexStrings[n + 1] is String(n) for the small indices, and the status codes.
IndexStrings == <<"0", "1", "2", "3", "4", "5", "6", "7", "8", "9", "10",
                  "11", "12", "13", "14", "15", "16", "17", "18", "19",
                  "200", "201", "204", "404", "500">>

IsIndexKey(key) == \E i \in 1..Len(IndexStrings) : IndexStrings[i] = key

IndexRank(key) == CHOOSE i \in 1..Len(IndexStrings) : IndexStrings[i] = key

KeyPos(e, key) ==
  IF \E i \in 1..Len(e) : e[i][1] = key
  THEN CHOOSE i \in 1..Len(e) : e[i][1] = key
  ELSE 0

\* obj[key] = v on the entry list of an ordinary object: an existing key keeps
\* its place; a new integer-like key goes among the integer-like keys in
\* ascending numeric order, ahead of every string key; a new string key goes last.
PutEntry(e, key, v) ==
  LET p == KeyPos(e, key) IN
  IF p > 0 THEN [e EXCEPT ![p] = <<key, v>>]
  ELSE IF IsIndexKey(key)
  THEN LET before == {i \in 1..Len(e) :
                        IsIndexKey(e[i][1]) /\ IndexRank(e[i][1]) < IndexRank(key)}
           n == Cardinality(before)
       IN SubSeq(e, 1, n) \o << <<key, v>> >> \o SubSeq(e, n + 1, Len(e))
  ELSE Append(e, <<key, v>>)

RECURSIVE PutAll(_, _)
PutAll(e, src) ==
  IF src = <<>> THEN e
  ELSE PutAll(PutEntry(e, src[1][1], src[1][2]), Tail(src))

\* An object literal / freshly built object with the given insertions
JsObj(entries) == Obj(PutAll(<<>>, entries))

HasKey(o, key) == o.k = "object" /\ KeyPos(o.e, key) > 0

\* o.key (undefined when the key is absent, and on primitives and arrays for
\* the property names the program reads)
Get(o, key) ==
  IF o.k = "object" /\ KeyPos(o.e, key) > 0 THEN o.e[KeyPos(o.e, key)][2]
  ELSE Undefined

\* A function object, such as the members an object inherits from Object.prototype
Function == [k |-> "function"]

\* The members of Object.prototype that the keys of the model can name
ObjectPrototypeKeys == {"constructor", "toString"}

\* o[key] with a computed key on an ordinary object: the own property, else the
\* member inherited from Object.prototype, else undefined
GetComputed(o, key) ==
  CASE HasKey(o, key) -> Get(o, key)
    [] ~HasKey(o, key) /\ o.k = "object" /\ key \in ObjectPrototypeKeys -> Function
    [] OTHER -> Undefined

\* The characters of the strings the synthesizer can produce
CharsOf(s) ==
  CASE s = "string" -> <<"s", "t", "r", "i", "n", "g">>
    [] s = "lit" -> <<"l", "i", "t">>
    [] s = "e1" -> <<"e", "1">>
    [] s = "x" -> <<"x">>
    [] s = "2025-04-18" -> <<"2", "0", "2", "5", "-", "0", "4", "-", "1", "8">>
    [] s = "2025-04-18T00:00:00" ->
         <<"2", "0", "2", "5", "-", "0", "4", "-", "1", "8", "T",
           "0", "0", ":", "0", "0", ":", "0", "0">>
    [] OTHER -> <<>>

\* The own enumerable entries that Object.entries, Object.assign and object
\* spread see: an object's entries, an array's elements under "0", "1", ...,
\* a string's characters under "0", "1", ..., nothing for other primitives.
OwnEntries(v) ==
  CASE v.k = "object" -> v.e
    [] v.k = "array" -> [i \in 1..Len(v.a) |-> <<IndexStrings[i], v.a[i]>>]
    [] v.k = "string" ->
         [i \in 1..Len(CharsOf(v.s)) |-> <<IndexStrings[i], Str(CharsOf(v.s)[i])>>]
    [] OTHER -> <<>>

\* A variant in which the keys the target already has keep their values
Assign_EarlierWins(target, source) ==
  Obj(PutAll(PutAll(target.e, OwnEntries(source)), target.e))

\* Object.assign(target, source): target is a plain object
Assign(target, source) == Obj(PutAll(target.e, OwnEntries(source)))

-----------------------------------------------------------------------------
(* The React state of OpenAPIPage *)

DefaultLeftPanelWidth == 50

\* the useState initial values
InitialState ==
  [ apiDoc |-> Null,
    inputValue |-> <<>>,
    error |-> Null,
    leftPanelWidth |-> DefaultLeftPanelWidth,
    isLeftPanelCollapsed |-> FALSE,
    collapsedTags |-> Obj(<<>>),
    isNavVisible |-> TRUE,
    copyWithDesc |-> FALSE,
    isSelectionMode |-> FALSE,
    selectedApis |-> {} ]

\* what a step reports in last
NoStep == [op |-> "none", parsed |-> <<>>, cleared |-> {}]

\* The page as the pure-function harnesses leave it: not mounted
PageIdle ==
  /\ mounted = FALSE
  /\ ui = InitialState
  /\ storage = Null
  /\ timers = {}
  /\ reads = <<>>
  /\ last = NoStep

-----------------------------------------------------------------------------
(* The example synthesizer *)

\* The JavaScript engine's call-stack limit, in frames of
\* generateExampleFromSchema: a call nested deeper throws RangeError.
MaxStack == 6

RefPrefix == "#/components/schemas/"

SchemaNames == {"Pet", "Tag", "A", "B", "Self", "L", "Old", "Missing", "constructor"}

\* schema.$ref.replace('#/components/schemas/', '')
StripRefPrefix(ref) ==
  IF \E n \in SchemaNames : ref = RefPrefix \o n
  THEN CHOOSE n \in SchemaNames : ref = RefPrefix \o n
  ELSE ref

\* apiDoc?.components?.schemas?.[schemaName] ?? apiDoc?.definitions?.[schemaName]
LookupSchema(apiDoc, schemaName) ==
  Coalesce(GetComputed(Get(Get(apiDoc, "components"), "schemas"), schemaName),
           GetComputed(Get(apiDoc, "definitions"), schemaName))

\* A variant that tests the example for truthiness: if (schema.example)
HasExample_Truthy(schema) == Truthy(Get(schema, "example"))

\* schema.example !== undefined
HasExample(schema) == Get(schema, "example") # Undefined

\* schema.title ?? schema.description
CommentOf(schema) == Coalesce(Get(schema, "title"), Get(schema, "description"))

ExamplePrefix == "example:"

DateLiteral == "2025-04-18"

DateTimeLiteral == "2025-04-18T00:00:00"

\* A variant of the string case that looks at enum before format
BaseTypeDefault_EnumFirst(schema) ==
  IF Get(schema, "enum").k = "array" /\ Len(Get(schema, "enum").a) > 0
  THEN Get(schema, "enum").a[1]
  ELSE IF Get(schema, "format") = Str("date") THEN Str(DateLiteral)
  ELSE IF Get(schema, "format") = Str("date-time") THEN Str(DateTimeLiteral)
  ELSE Str("string")

\* The switch on schema.type: base-type defaults
BaseTypeDefault(schema) ==
  LET type == Get(schema, "type")
      dflt == Get(schema, "default")
      enum == Get(schema, "enum")
  IN
  CASE type = Str("string") ->
         IF Get(schema, "format") = Str("date") THEN Str(DateLiteral)
         ELSE IF Get(schema, "format") = Str("date-time") THEN Str(DateTimeLiteral)
         ELSE IF enum.k = "array" /\ Len(enum.a) > 0 THEN enum.a[1]
         ELSE IF Truthy(Get(schema, "title"))
         THEN Str(ExamplePrefix \o Get(schema, "title").s)
         ELSE IF Truthy(Get(schema, "description"))
         THEN Str(ExamplePrefix \o Get(schema, "description").s)
         ELSE Str("string")
    [] type \in {Str("number"), Str("integer")} ->
         IF dflt # Undefined THEN dflt
         ELSE IF Get(schema, "minimum") # Undefined THEN Get(schema, "minimum")
         ELSE IF Get(schema, "maximum") # Undefined THEN Get(schema, "maximum")
         ELSE Num(0)
    [] type = Str("boolean") -> IF dflt # Undefined THEN dflt ELSE Bool(FALSE)
    [] type = Str("null") -> Null
    [] OTHER -> IF dflt # Undefined THEN dflt ELSE Undefined

\* if (schema.$ref) { ... if (refSchema) { ... } }: the reference branch is
\* taken when the reference is truthy and names a schema of the document.
RefTarget(apiDoc, schema) ==
  LookupSchema(apiDoc, StripRefPrefix(Get(schema, "$ref").s))

TakesRefBranch(apiDoc, schema) ==
  /\ Truthy(Get(schema, "$ref"))
  /\ Truthy(RefTarget(apiDoc, schema))

\* { ...refExample, __comment: schema.title ?? schema.description }
WithComment(refExample, comment) ==
  Obj(PutEntry(PutAll(<<>>, OwnEntries(refExample)), "__comment", comment))

\* if (schema.type === 'object' || schema.properties)
IsObjectSchema(schema) ==
  Get(schema, "type") = Str("object") \/ Truthy(Get(schema, "properties"))

\* if (schema.type === 'array' && schema.items)
IsArraySchema(schema) ==
  Get(schema, "type") = Str("array") /\ Truthy(Get(schema, "items"))

\* if (value !== undefined) result[key] = value
SetDefined(e, key, value) == IF value # Undefined THEN PutEntry(e, key, value) ELSE e

\* A variant that wraps whatever the item synthesis yields
WrapItem_Always(itemExample) == Arr(<<itemExample>>)

\* return itemExample !== undefined ? [itemExample] : []
WrapItem(itemExample) == IF itemExample # Undefined THEN Arr(<<itemExample>>) ELSE Arr(<<>>)

RECURSIVE Gen(_, _, _)
RECURSIVE AllOfLoop(_, _, _, _)
RECURSIVE PropsLoop(_, _, _, _)

\* if (typeof subExample === 'object' && subExample !== null)
\*   Object.assign(result, subExample)
AllOfStep(apiDoc, subs, result, d, subExample) ==
  IF Thrown(subExample) THEN subExample
  ELSE AllOfLoop(apiDoc, Tail(subs),
                 IF TypeofObject(subExample) /\ subExample # Null
                 THEN Assign(result, subExample) ELSE result,
                 d)

\* for (const subSchema of schema.allOf) { ... }
AllOfLoop(apiDoc, subs, result, d) ==
  IF subs = <<>> THEN result
  ELSE AllOfStep(apiDoc, subs, result, d, Gen(apiDoc, subs[1], d))

\* if (value !== undefined) result[key] = value
PropsStep(apiDoc, props, result, d, value) ==
  IF Thrown(value) THEN value
  ELSE PropsLoop(apiDoc, Tail(props), Obj(SetDefined(result.e, props[1][1], value)), d)

\* for (const [key, prop] of Object.entries(properties)) { ... }
PropsLoop(apiDoc, props, result, d) ==
  IF props = <<>> THEN result
  ELSE PropsStep(apiDoc, props, result, d, Gen(apiDoc, props[1][2], d))

\* the schema the allOf branch builds from schema.properties
AllOfPropsSchema(schema) ==
  Obj(<< <<"type", Str("object")>>,
         <<"properties", Get(schema, "properties")>>,
         <<"required", Get(schema, "required")>> >>)

\* Object.assign(result, propsExample)
AllOfProps(merged, propsExample) ==
  IF Thrown(propsExample) THEN propsExample ELSE Assign(merged, propsExample)

\* for...of over schema.allOf: an array, a string (its characters synthesize
\* to nothing that is merged), or a value that is not iterable
AllOfMembers(apiDoc, allOf, d) ==
  CASE allOf.k = "array" -> AllOfLoop(apiDoc, allOf.a, Obj(<<>>), d)
    [] allOf.k = "string" -> Obj(<<>>)
    [] OTHER -> TypeError

\* The allOf branch, after the loop: if (schema.properties) { ... }
GenAllOf(apiDoc, schema, d, merged) ==
  CASE Thrown(merged) -> merged
    [] ~Thrown(merged) /\ Truthy(Get(schema, "properties")) ->
         AllOfProps(merged, Gen(apiDoc, AllOfPropsSchema(schema), d))
    [] OTHER -> merged

\* The $ref branch, after the reference's example is synthesized
GenRef(schema, refExample) ==
  CASE Thrown(refExample) -> refExample
    [] ~Thrown(refExample) /\ Truthy(CommentOf(schema)) ->
         WithComment(refExample, CommentOf(schema))
    [] OTHER -> refExample

\* if (comment) result.__comment = comment, at the end of the object branch
ObjectComment(schema, r2) ==
  CASE Thrown(r2) -> r2
    [] ~Thrown(r2) /\ Truthy(CommentOf(schema)) ->
         Obj(PutEntry(r2.e, "__comment", CommentOf(schema)))
    [] OTHER -> r2

\* A variant that adds a single example property
AdditionalProps_One(schema, r1, examplePropValue) ==
  IF Thrown(examplePropValue) THEN examplePropValue
  ELSE ObjectComment(schema, Obj(PutEntry(r1.e, "additionalProp1", examplePropValue)))

\* result['additionalProp1'..'additionalProp3'] = examplePropValue
AdditionalProps(schema, r1, examplePropValue) ==
  IF Thrown(examplePropValue) THEN examplePropValue
  ELSE ObjectComment(schema,
         Obj(PutAll(r1.e, << <<"additionalProp1", examplePropValue>>,
                             <<"additionalProp2", examplePropValue>>,
                             <<"additionalProp3", examplePropValue>> >>)))

\* The object branch, after the loop over schema.properties:
\* if (schema.additionalProperties && typeof schema.additionalProperties === 'object')
GenObject(apiDoc, schema, d, r1, addl) ==
  CASE Thrown(r1) -> r1
    [] ~Thrown(r1) /\ Truthy(addl) /\ TypeofObject(addl) ->
         AdditionalProps(schema, r1, Gen(apiDoc, addl, d))
    [] OTHER -> ObjectComment(schema, r1)

\* Object.entries(schema.properties) when schema.properties is truthy
PropertyEntries(schema) ==
  IF Truthy(Get(schema, "properties")) THEN OwnEntries(Get(schema, "properties")) ELSE <<>>

\* The array branch, after the item's example is synthesized
GenArray(itemExample) ==
  IF Thrown(itemExample) THEN itemExample ELSE WrapItem(itemExample)

\* The first test of the function body that succeeds, in the order of the code
Branch(apiDoc, schema) ==
  IF ~Truthy(schema) THEN "null"
  ELSE IF HasExample(schema) THEN "example"
  ELSE IF Truthy(Get(schema, "allOf")) THEN "allOf"
  ELSE IF Truthy(Get(schema, "$ref")) /\ Get(schema, "$ref").k # "string" THEN "replace"
  ELSE IF TakesRefBranch(apiDoc, schema) THEN "$ref"
  ELSE IF IsObjectSchema(schema) THEN "object"
  ELSE IF IsArraySchema(schema) THEN "array"
  ELSE "switch"

\* generateExampleFromSchema at call depth MaxStack - d: d frames are left
\* before the engine's stack is exhausted.
Gen(apiDoc, schema, d) ==
  CASE d = 0 -> RangeError
    [] d > 0 /\ Branch(apiDoc, schema) = "null" -> Null
    [] d > 0 /\ Branch(apiDoc, schema) = "example" -> Get(schema, "example")
    [] d > 0 /\ Branch(apiDoc, schema) = "allOf" ->
         GenAllOf(apiDoc, schema, d - 1, AllOfMembers(apiDoc, Get(schema, "allOf"), d - 1))
    [] d > 0 /\ Branch(apiDoc, schema) = "replace" -> TypeError
    [] d > 0 /\ Branch(apiDoc, schema) = "$ref" ->
         GenRef(schema, Gen(apiDoc, RefTarget(apiDoc, schema), d - 1))
    [] d > 0 /\ Branch(apiDoc, schema) = "object" ->
         GenObject(apiDoc, schema, d - 1,
                   PropsLoop(apiDoc, PropertyEntries(schema), Obj(<<>>), d - 1),
                   Get(schema, "additionalProperties"))
    [] d > 0 /\ Branch(apiDoc, schema) = "array" ->
         GenArray(Gen(apiDoc, Get(schema, "items"), d - 1))
    [] d > 0 /\ Branch(apiDoc, schema) = "switch" -> BaseTypeDefault(schema)

generateExampleFromSchema(apiDoc, schema) == Gen(apiDoc, schema, MaxStack)

-----------------------------------------------------------------------------
(* Inputs of the synthesizer: schema nodes as the validator hands them on   *)
(* (keys in the order of the SchemaObject shape), over a document whose     *)
(* named schemas include reference cycles.                                  *)

Ref(name) == JsObj(<< <<"$ref", Str(RefPrefix \o name)>> >>)

TypeOnly(t) == JsObj(<< <<"type", Str(t)>> >>)

PetSchema ==
  JsObj(<< <<"type", Str("object")>>,
           <<"properties",
             JsObj(<< <<"id", JsObj(<< <<"type", Str("integer")>>, <<"default", Num(7)>> >>)>>,
                      <<"name", TypeOnly("string")>> >>)>> >>)

TagSchema ==
  JsObj(<< <<"type", Str("string")>>, <<"enum", Arr(<<Str("e1"), Str("e2")>>)>> >>)

\* A and B refer to each other through a property
ASchema ==
  JsObj(<< <<"type", Str("object")>>,
           <<"properties", JsObj(<< <<"n", TypeOnly("integer")>>, <<"b", Ref("B")>> >>)>> >>)

BSchema ==
  JsObj(<< <<"type", Str("object")>>,
           <<"properties", JsObj(<< <<"a", Ref("A")>>, <<"m", TypeOnly("string")>> >>)>> >>)

\* Self refers to itself through items, L through an allOf branch
SelfSchema == JsObj(<< <<"type", Str("array")>>, <<"items", Ref("Self")>> >>)

LSchema == JsObj(<< <<"allOf", Arr(<<Ref("L"), TypeOnly("object")>>)>> >>)

SynthDoc ==
  JsObj(<< <<"components",
             JsObj(<< <<"schemas",
                        JsObj(<< <<"Pet", PetSchema>>, <<"Tag", TagSchema>>,
                                 <<"A", ASchema>>, <<"B", BSchema>>,
                                 <<"Self", SelfSchema>>, <<"L", LSchema>> >>)>> >>)>>,
           <<"definitions", JsObj(<< <<"Old", TypeOnly("boolean")>> >>)>> >>)

\* An optional field: absent, or one of the given values
Opt(key, values) == {<<>>} \cup {<< <<key, v>> >> : v \in values}

TypeOpts == Opt("type", {Str("object"), Str("array"), Str("string"), Str("integer")})

\* properties maps as the document declares them, member by member
PropertyLists ==
  { << <<"p", TypeOnly("string")>>, <<"q", Ref("Missing")>> >>,
    << <<"c", Ref("A")>>, <<"q", TypeOnly("integer")>> >>,
    << <<"b", TypeOnly("string")>>, <<"1", TypeOnly("integer")>> >> }

PropertiesOpts == Opt("properties", { JsObj(l) : l \in PropertyLists })

ItemsOpts == Opt("items", {TypeOnly("string"), Ref("Missing")})

RefOpts ==
  Opt("$ref", {Str(RefPrefix \o "Pet"), Str(RefPrefix \o "A"),
               Str(RefPrefix \o "Missing"), Str(RefPrefix \o "Self")})

ExampleOpts ==
  Opt("example", {Num(0), Null, Str("lit")})

DefaultOpts == Opt("default", {Num(5)})

TitleOpts == Opt("title", {Str("T")})

AllOfOpts ==
  Opt("allOf",
      { Arr(<<Ref("Pet"), JsObj(<< <<"properties", JsObj(<< <<"extra", TypeOnly("string")>> >>)>> >>)>>),
        Arr(<<Ref("Missing"), Ref("B")>>) })

\* Nodes combining the fields that decide the branch taken
BranchNodes ==
  { Obj(t \o p \o i \o r \o e \o d \o ti \o a) :
      t \in TypeOpts, p \in PropertiesOpts, i \in ItemsOpts, r \in RefOpts,
      e \in ExampleOpts, d \in DefaultOpts, ti \in TitleOpts, a \in AllOfOpts }

\* References by other spellings: a bare name, an OpenAPI 2.0 pointer,
\* and references to the remaining named schemas
OtherRefNodes ==
  { Obj(r \o d) :
      r \in Opt("$ref", {Str("Old"), Str("Pet"), Str("#/definitions/Old"),
                         Str(RefPrefix \o "Tag"), Str(RefPrefix \o "L"),
                         Str(RefPrefix \o "B"), Str(RefPrefix \o "constructor")}) \ {<<>>},
      d \in Opt("description", {Str("D")}) }

StringNodes ==
  { Obj(<< <<"type", Str("string")>> >> \o f \o e \o d \o ti) :
      f \in Opt("format", {Str("date"), Str("date-time"), Str("uuid")}),
      e \in Opt("enum", {Arr(<<>>), Arr(<<Str("e1"), Str("e2")>>)}),
      d \in Opt("description", {Str("D")}),
      ti \in TitleOpts }

NumberNodes ==
  { Obj(<< <<"type", Str(t)>> >> \o d \o mx \o mn) :
      t \in {"number", "integer", "boolean", "null"},
      d \in Opt("default", {Num(5), Num(0), Bool(TRUE)}),
      mx \in Opt("maximum", {Num(9)}),
      mn \in Opt("minimum", {Num(1), Num(0)}) }

ObjectNodes ==
  { Obj(t \o p \o ap \o d \o ti) :
      t \in Opt("type", {Str("object")}),
      p \in PropertiesOpts,
      ap \in Opt("additionalProperties",
                 {Bool(TRUE), Bool(FALSE), TypeOnly("integer"), Ref("Missing"), Ref("Self")}),
      d \in Opt("description", {Str("D")}),
      ti \in TitleOpts }

\* allOf lists whose branches overlap in a key, or synthesize to something
\* other than a plain object, beside sibling properties
AllOfLists ==
  { Arr(<<>>),
    Arr(<<Ref("Pet"),
          JsObj(<< <<"properties", JsObj(<< <<"name", Ref("Tag")>>,
                                            <<"extra", TypeOnly("string")>> >>)>> >>)>>),
    Arr(<<TypeOnly("string"), Ref("Pet"), Ref("Missing")>>),
    Arr(<<Ref("Pet"), JsObj(<< <<"type", Str("array")>>, <<"items", TypeOnly("integer")>> >>)>>) }

AllOfNodes ==
  { Obj(<< <<"allOf", a>> >> \o p \o ti) :
      a \in AllOfLists,
      p \in PropertiesOpts \cup {<< <<"properties", JsObj(<< <<"id", TypeOnly("string")>> >>)>> >>},
      ti \in TitleOpts }

SynthInputs ==
  BranchNodes \cup OtherRefNodes \cup StringNodes \cup NumberNodes \cup ObjectNodes
    \cup AllOfNodes

InitSynth ==
  /\ PageIdle
  /\ pc = "ready"
  /\ arg \in [apiDoc : {SynthDoc}, schema : SynthInputs]
  /\ out = Undefined

\* One synthesis call, as PathItem makes it on render
Synthesize ==
  /\ pc = "ready"
  /\ pc' = "done"
  /\ out' = generateExampleFromSchema(arg.apiDoc, arg.schema)
  /\ UNCHANGED <<arg, pageVars>>

NextSynth == Synthesize

SpecSynth == InitSynth /\ [][NextSynth]_vars

-----------------------------------------------------------------------------
(* The tag index *)

DefaultTag == "default"

\* operation.tags ?? [defaultTag]
TagsOf(operation) == Coalesce(Get(operation, "tags"), Arr(<<Str(DefaultTag)>>))

\* result[tag] ??= []; result[tag].push({ path, method, operation })
\* (a bucket that is not an array has no push: TypeError)
PushRecord(result, tag, rec) ==
  LET bucket == Coalesce(GetComputed(result, tag), Arr(<<>>)) IN
  IF bucket.k # "array" THEN TypeError
  ELSE Obj(PutEntry(result.e, tag, Arr(Append(bucket.a, rec))))

RECURSIVE TagsLoop(_, _, _)
TagsLoop(result, tags, rec) ==
  IF tags = <<>> \/ Thrown(result) THEN result
  ELSE TagsLoop(PushRecord(result, tags[1].s, rec), Tail(tags), rec)

RECURSIVE MethodsLoop(_, _, _)
MethodsLoop(result, path, methods) ==
  IF methods = <<>> \/ Thrown(result) THEN result
  ELSE LET method == methods[1][1]
           operation == methods[1][2]
           rec == Obj(<< <<"path", Str(path)>>, <<"method", Str(method)>>,
                         <<"operation", operation>> >>)
       IN MethodsLoop(TagsLoop(result, TagsOf(operation).a, rec), path, Tail(methods))

RECURSIVE PathsLoop(_, _)
PathsLoop(result, paths) ==
  IF paths = <<>> \/ Thrown(result) THEN result
  ELSE PathsLoop(MethodsLoop(result, paths[1][1], OwnEntries(paths[1][2])), Tail(paths))

\* useMemo(() => { ... }, [apiDoc])
pathsByTag(apiDoc) ==
  IF ~Truthy(apiDoc) THEN Obj(<<>>)
  ELSE PathsLoop(Obj(<<>>), OwnEntries(Get(apiDoc, "paths")))

-----------------------------------------------------------------------------
(* Inputs of the tag index: validated documents of one or two paths *)

TagLists ==
  { Arr(<<>>), Arr(<<Str("A")>>), Arr(<<Str("A"), Str("B")>>), Arr(<<Str("B"), Str("A")>>),
    Arr(<<Str("default")>>), Arr(<<Str("2"), Str("1")>>), Arr(<<Str("A"), Str("constructor")>>) }

\* An operation as the validator hands it on: tags optional, responses required
IndexOps ==
  { Obj(t \o << <<"responses", Obj(<<>>)>> >>) : t \in Opt("tags", TagLists) }

MethodMaps ==
  { JsObj(<< <<m, o>> >>) : m \in {"get", "post"}, o \in IndexOps }
  \cup { JsObj(<< <<"get", o1>>, <<"post", o2>> >>) : o1 \in IndexOps, o2 \in IndexOps }
  \cup { JsObj(<< <<"put", o1>>, <<"get", o2>> >>) : o1 \in IndexOps, o2 \in IndexOps }

IndexInfo == JsObj(<< <<"title", Str("t")>>, <<"version", Str("1")>> >>)

IndexDocs ==
  { JsObj(<< <<"info", IndexInfo>>, <<"paths", JsObj(<< <<"/a", m>> >>)>> >>) : m \in MethodMaps }
  \cup
  { JsObj(<< <<"info", IndexInfo>>,
             <<"paths", JsObj(<< <<"/b", m1>>, <<"/a", JsObj(<< <<"get", o>> >>)>> >>)>> >>) :
      m1 \in MethodMaps, o \in IndexOps }

InitIndex ==
  /\ PageIdle
  /\ pc = "ready"
  /\ arg \in IndexDocs
  /\ out = Undefined

\* One evaluation of the memo, as a render with a new apiDoc makes it
BuildIndex ==
  /\ pc = "ready"
  /\ pc' = "done"
  /\ out' = pathsByTag(arg)
  /\ UNCHANGED <<arg, pageVars>>

NextIndex == BuildIndex

SpecIndex == InitIndex /\ [][NextIndex]_vars

-----------------------------------------------------------------------------
(* The example extractors of PathItem *)

\* Object.entries(x)[0]
FirstEntry(x) == IF OwnEntries(x) = <<>> THEN <<>> ELSE OwnEntries(x)[1]

\* code.startsWith('2'), over the status-code keys of the model
StartsWith2(code) == code \in {"200", "201", "204", "2XX"}

\* key.includes('success'), over the example names of the model
IncludesSuccess(key) == key \in {"success", "on-success"}

\* Array.prototype.find over entries: the first entry satisfying Test, or <<>>
FindSuccessResponse(entries) ==
  LET hits == {i \in 1..Len(entries) : StartsWith2(entries[i][1])} IN
  IF hits = {} THEN <<>>
  ELSE entries[CHOOSE i \in hits : \A j \in hits : i <= j]

\* typeof example === 'object' && example !== null && 'value' in example
\*   ? value?.code === 200 || key.includes('success') : false
IsSuccessExample(key, example) ==
  /\ example.k = "object"
  /\ HasKey(example, "value")
  /\ (Get(Get(example, "value"), "code") = Num(200) \/ IncludesSuccess(key))

FindSuccessExample(entries) ==
  LET hits == {i \in 1..Len(entries) : IsSuccessExample(entries[i][1], entries[i][2])} IN
  IF hits = {} THEN <<>>
  ELSE entries[CHOOSE i \in hits : \A j \in hits : i <= j]

getRequestExample(item) ==
  LET content == Get(Get(Get(item, "operation"), "requestBody"), "content")
      firstContentType == FirstEntry(content)
  IN
  IF ~Truthy(content) THEN Null
  ELSE IF firstContentType = <<>> THEN Null
  ELSE Obj(<< <<"contentType", Str(firstContentType[1])>>,
              <<"example", Coalesce(Get(firstContentType[2], "example"), Null)>> >>)

getResponseExample(apiDoc, item) ==
  LET successResponse == FindSuccessResponse(OwnEntries(Get(Get(item, "operation"), "responses")))
      code == successResponse[1]
      response == successResponse[2]
      firstContentType == FirstEntry(Get(response, "content"))
      contentType == firstContentType[1]
      content == firstContentType[2]
      successExample == FindSuccessExample(OwnEntries(Get(content, "examples")))
      synthesized == generateExampleFromSchema(apiDoc, Get(content, "schema"))
  IN
  IF successResponse = <<>> THEN Null
  ELSE IF ~Truthy(Get(response, "content")) THEN Null
  ELSE IF firstContentType = <<>> THEN Null
  ELSE IF Truthy(Get(content, "examples")) /\ successExample # <<>>
  THEN Obj(<< <<"code", Str(code)>>, <<"contentType", Str(contentType)>>,
              <<"example", Get(successExample[2], "value")>>,
              <<"summary", Get(successExample[2], "summary")>> >>)
  ELSE IF Truthy(Get(content, "example"))
  THEN Obj(<< <<"code", Str(code)>>, <<"contentType", Str(contentType)>>,
              <<"example", Get(content, "example")>> >>)
  ELSE IF Truthy(Get(content, "schema"))
  THEN IF Thrown(synthesized) THEN synthesized
       ELSE Obj(<< <<"code", Str(code)>>, <<"contentType", Str(contentType)>>,
                   <<"example", synthesized>> >>)
  ELSE Null

getDefaultExample(apiDoc, item) ==
  LET requestExample == getRequestExample(item)
      schema == Get(Get(Get(Get(Get(item, "operation"), "requestBody"), "content"),
                        "application/json"), "schema")
  IN
  IF Truthy(Get(requestExample, "example")) THEN Get(requestExample, "example")
  ELSE IF Truthy(schema) THEN generateExampleFromSchema(apiDoc, schema)
  ELSE Null

-----------------------------------------------------------------------------
(* Inputs of the extractors: operations as the validator hands them on      *)
(* (a media entry always has a schema; example and examples are optional).  *)

MediaSchemas == {TypeOnly("string"), Ref("Pet"), TypeOnly("integer")}

MediaExampleOpts == Opt("example", {Str("lit"), Num(0), Bool(FALSE), JsObj(<< <<"a", Num(1)>> >>)})

ExampleEntry(v) == JsObj(<< <<"value", v>> >>)

MediaExamplesOpts ==
  Opt("examples",
      { Obj(<<>>),
        JsObj(<< <<"first", ExampleEntry(Num(1))>>, <<"second", ExampleEntry(Num(2))>> >>),
        JsObj(<< <<"error", ExampleEntry(JsObj(<< <<"code", Num(500)>> >>))>>,
                 <<"success", ExampleEntry(Str("x"))>> >>),
        JsObj(<< <<"plain", ExampleEntry(Num(3))>>,
                 <<"ok", ExampleEntry(JsObj(<< <<"code", Num(200)>> >>))>> >>),
        JsObj(<< <<"novalue", JsObj(<< <<"summary", Str("s")>> >>)>> >>) })

MediaEntries ==
  { Obj(<< <<"schema", sc>> >> \o ex \o exs) :
      sc \in MediaSchemas, ex \in MediaExampleOpts, exs \in MediaExamplesOpts }

PlainMedia == JsObj(<< <<"schema", TypeOnly("integer")>> >>)

\* content maps: one media type, or two in either declaration order
ContentMaps ==
  { JsObj(<< <<ct, m>> >>) : ct \in {"application/json", "text/plain"}, m \in MediaEntries }
  \cup { JsObj(<< <<"text/plain", m>>, <<"application/json", PlainMedia>> >>) : m \in MediaEntries }
  \cup { JsObj(<< <<"application/json", m>>, <<"text/plain", PlainMedia>> >>) : m \in MediaEntries }
  \cup { Obj(<<>>) }

OkResponses == JsObj(<< <<"200", JsObj(<< <<"description", Str("ok")>> >>)>> >>)

\* operations that vary in the request body
RequestOps ==
  { JsObj(<< <<"responses", OkResponses>> >>) }
  \cup { JsObj(<< <<"requestBody", JsObj(<< <<"content", c>> >>)>>,
                  <<"responses", OkResponses>> >>) : c \in ContentMaps }

ResponseOf(c) == JsObj(<< <<"description", Str("d")>>, <<"content", c>> >>)

ErrorResponse == JsObj(<< <<"description", Str("bad")>>,
                          <<"content", JsObj(<< <<"application/json",
                               JsObj(<< <<"schema", TypeOnly("string")>>,
                                        <<"example", Str("err")>> >>)>> >>)>> >>)

\* responses maps as the document declares them, member by member
ResponseLists ==
  { << <<code, ResponseOf(c)>> >> : code \in {"200", "2XX"}, c \in ContentMaps }
  \cup { << <<"default", ErrorResponse>>, <<"201", ResponseOf(c)>>,
            <<"200", JsObj(<< <<"description", Str("no content")>> >>)>> >> : c \in ContentMaps }
  \cup { << <<"201", ResponseOf(c)>>,
            <<"200", ResponseOf(JsObj(<< <<"application/json", PlainMedia>> >>))>> >> :
           c \in ContentMaps }
  \cup { << <<"404", ErrorResponse>>, <<"default", ResponseOf(c)>> >> : c \in ContentMaps }

\* operations that vary in the responses
ResponseOps ==
  { JsObj(<< <<"responses", JsObj(l)>> >>) : l \in ResponseLists }

ExtractItems ==
  { Obj(<< <<"path", Str("/a")>>, <<"method", Str(m)>>, <<"operation", o>> >>) :
      m \in {"post", "get"}, o \in RequestOps \cup ResponseOps }

InitExtract ==
  /\ PageIdle
  /\ pc = "ready"
  /\ arg \in [apiDoc : {SynthDoc}, item : ExtractItems]
  /\ out = Undefined

\* One render of PathItem: const requestExample = getDefaultExample();
\* const responseExample = getResponseExample();
Extract ==
  /\ pc = "ready"
  /\ pc' = "done"
  /\ out' = [requestExample |-> getDefaultExample(arg.apiDoc, arg.item),
             responseExample |-> getResponseExample(arg.apiDoc, arg.item)]
  /\ UNCHANGED <<arg, pageVars>>

NextExtract == Extract

SpecExtract == InitExtract /\ [][NextExtract]_vars

-----------------------------------------------------------------------------
(* The batch copy of the FloatingToolbar: copySelectedApisData, for one     *)
(* selected operation, with every copy option on.  What it emits for the    *)
(* request and the response example, Null where it emits nothing.           *)

\* ['post', 'put'].includes(method.toLowerCase()) ... if (example) parts.push(...)
copyRequestExample(apiDoc, method, operation) ==
  LET content == Get(Get(operation, "requestBody"), "content")
      firstContentType == FirstEntry(content)
      example == Coalesce(Get(firstContentType[2], "example"),
                          generateExampleFromSchema(apiDoc, Get(firstContentType[2], "schema")))
  IN
  IF method \notin {"post", "put"} THEN Null
  ELSE IF ~Truthy(content) THEN Null
  ELSE IF firstContentType = <<>> THEN Null
  ELSE IF Thrown(example) THEN example
  ELSE IF Truthy(example) THEN example
  ELSE Null

\* the example of the response section: examples, then example, then schema
copyResponseStep(apiDoc, content, successExample) ==
  LET fromExamples == IF Truthy(Get(content, "examples")) /\ successExample # <<>>
                      THEN Get(successExample[2], "value") ELSE Null
      fromExample == IF ~Truthy(fromExamples) /\ Truthy(Get(content, "example"))
                     THEN Get(content, "example") ELSE fromExamples
  IN IF ~Truthy(fromExample) /\ Truthy(Get(content, "schema"))
     THEN generateExampleFromSchema(apiDoc, Get(content, "schema"))
     ELSE fromExample

\* if (example) parts.push(`响应示例 (${code}):`, JSON.stringify(example, null, 2))
copyResponseExample(apiDoc, operation) ==
  LET successResponse == FindSuccessResponse(OwnEntries(Get(operation, "responses")))
      firstContentType == FirstEntry(Get(successResponse[2], "content"))
      example == copyResponseStep(apiDoc, firstContentType[2],
                   FindSuccessExample(OwnEntries(Get(firstContentType[2], "examples"))))
  IN
  IF successResponse = <<>> THEN Null
  ELSE IF ~Truthy(Get(successResponse[2], "content")) THEN Null
  ELSE IF firstContentType = <<>> THEN Null
  ELSE IF Thrown(example) THEN example
  ELSE IF Truthy(example)
  THEN Obj(<< <<"code", Str(successResponse[1])>>, <<"example", example>> >>)
  ELSE Null

\* the selected operations: POST and PUT operations of every shape
CopyItems ==
  { Obj(<< <<"path", Str("/a")>>, <<"method", Str(m)>>, <<"operation", o>> >>) :
      m \in {"post", "put"}, o \in RequestOps \cup ResponseOps }

InitCopy ==
  /\ PageIdle
  /\ pc = "ready"
  /\ arg \in [apiDoc : {SynthDoc}, item : CopyItems]
  /\ out = Undefined

\* copySelectedApisData with one operation selected
copySelectedApisData ==
  /\ pc = "ready"
  /\ pc' = "done"
  /\ out' = [requestExample |-> copyRequestExample(arg.apiDoc, Get(arg.item, "method").s,
                                                   Get(arg.item, "operation")),
             responseExample |-> copyResponseExample(arg.apiDoc, Get(arg.item, "operation"))]
  /\ UNCHANGED <<arg, pageVars>>

NextCopy == copySelectedApisData

SpecCopy == InitCopy /\ [][NextCopy]_vars

-----------------------------------------------------------------------------
(* JSON text.  A text is a sequence of lexical tokens; whitespace runs are  *)
(* tokens too, so that trim() and pretty-printing are visible.              *)

P(c) == [t |-> "punct", c |-> c]
StrTok(s) == [t |-> "string", s |-> s]
NumTok(n) == [t |-> "number", n |-> n]
LitTok(l) == [t |-> "literal", l |-> l]
Ws == [t |-> "ws"]
Eof == [t |-> "eof"]

\* inputValue.trim() is the empty string
IsBlank(text) == \A i \in 1..Len(text) : text[i] = Ws

Tok(text, i) == IF i <= Len(text) THEN text[i] ELSE Eof

IsP(tok, c) == tok.t = "punct" /\ tok.c = c

\* the first position at or after i that holds no whitespace
SkipWs(text, i) ==
  IF \E j \in i..Len(text) : text[j] # Ws
  THEN CHOOSE j \in i..Len(text) : text[j] # Ws /\ \A h \in i..(j - 1) : text[h] = Ws
  ELSE Len(text) + 1

ParseFail(i) == [ok |-> FALSE, v |-> Undefined, i |-> i]
ParseDone(v, i) == [ok |-> TRUE, v |-> v, i |-> i]

RECURSIVE ParseValue(_, _)
RECURSIVE ParseMembers(_, _, _, _)
RECURSIVE ParseElements(_, _, _)

\* the position of the token after the one at i
NextTok(text, i) == SkipWs(text, i + 1)

\* after a member's value r: "," and more members, or "}"
MembersAfter(text, acc, key, r) ==
  CASE ~r.ok -> r
    [] r.ok /\ IsP(Tok(text, SkipWs(text, r.i)), ",") ->
         ParseMembers(text, NextTok(text, SkipWs(text, r.i)),
                      NextTok(text, NextTok(text, SkipWs(text, r.i))),
                      PutEntry(acc, key, r.v))
    [] r.ok /\ IsP(Tok(text, SkipWs(text, r.i)), "}") ->
         ParseDone(Obj(PutEntry(acc, key, r.v)), SkipWs(text, r.i) + 1)
    [] OTHER -> ParseFail(SkipWs(text, r.i))

\* the members of an object after "{" or ",": a key is expected at j and a
\* colon at c
ParseMembers(text, j, c, acc) ==
  CASE Tok(text, j).t # "string" -> ParseFail(j)
    [] Tok(text, j).t = "string" /\ ~IsP(Tok(text, c), ":") -> ParseFail(c)
    [] OTHER -> MembersAfter(text, acc, Tok(text, j).s, ParseValue(text, c + 1))

\* after an element's value r: "," and more elements, or "]"
ElementsAfter(text, acc, r) ==
  CASE ~r.ok -> r
    [] r.ok /\ IsP(Tok(text, SkipWs(text, r.i)), ",") ->
         ParseElements(text, SkipWs(text, r.i) + 1, Append(acc, r.v))
    [] r.ok /\ IsP(Tok(text, SkipWs(text, r.i)), "]") ->
         ParseDone(Arr(Append(acc, r.v)), SkipWs(text, r.i) + 1)
    [] OTHER -> ParseFail(SkipWs(text, r.i))

\* the elements of an array after "[" or ",": a value is expected at i
ParseElements(text, i, acc) == ElementsAfter(text, acc, ParseValue(text, i))

Literal(l) == IF l = "null" THEN Null ELSE Bool(l = "true")

\* the kind of value that starts with the token at j
ValueKind(text, j) ==
  IF Tok(text, j).t # "punct" THEN Tok(text, j).t
  ELSE IF Tok(text, j).c \in {"{", "["}
  THEN (IF IsP(Tok(text, NextTok(text, j)), IF Tok(text, j).c = "{" THEN "}" ELSE "]")
        THEN "empty" ELSE "") \o Tok(text, j).c
  ELSE "none"

\* a value whose first token is at j
ValueAt(text, j) ==
  CASE ValueKind(text, j) = "string" -> ParseDone(Str(Tok(text, j).s), j + 1)
    [] ValueKind(text, j) = "number" -> ParseDone(Num(Tok(text, j).n), j + 1)
    [] ValueKind(text, j) = "literal" -> ParseDone(Literal(Tok(text, j).l), j + 1)
    [] ValueKind(text, j) = "empty{" -> ParseDone(Obj(<<>>), NextTok(text, j) + 1)
    [] ValueKind(text, j) = "{" ->
         ParseMembers(text, NextTok(text, j), NextTok(text, NextTok(text, j)), <<>>)
    [] ValueKind(text, j) = "empty[" -> ParseDone(Arr(<<>>), NextTok(text, j) + 1)
    [] ValueKind(text, j) = "[" -> ParseElements(text, j + 1, <<>>)
    [] OTHER -> ParseFail(j)

ParseValue(text, i) == ValueAt(text, SkipWs(text, i))

\* the text after the value must be blank
Parsed(text, r) ==
  IF r.ok /\ SkipWs(text, r.i) <= Len(text) THEN ParseFail(SkipWs(text, r.i)) ELSE r

\* JSON.parse(text): the value, or a SyntaxError at a token position
JSONparse(text) == Parsed(text, ParseValue(text, 1))

RECURSIVE Stringify(_, _)
RECURSIVE StringifyEntries(_, _, _)
RECURSIVE StringifyItems(_, _, _)

Sep(pretty) == IF pretty THEN <<Ws>> ELSE <<>>

\* a comma precedes every member but the first one written; a member whose
\* value is undefined is not written
EntryComma(e, n) == IF \A i \in 1..(n - 1) : e[i][2] = Undefined THEN <<>> ELSE <<P(",")>>

EntryText(e, n, pretty) ==
  IF e[n][2] = Undefined THEN <<>>
  ELSE (EntryComma(e, n) \o Sep(pretty) \o <<StrTok(e[n][1]), P(":")>> \o Sep(pretty))
       \o Stringify(e[n][2], pretty)

\* the first n members of an object
StringifyEntries(e, n, pretty) ==
  IF n = 0 THEN <<>> ELSE StringifyEntries(e, n - 1, pretty) \o EntryText(e, n, pretty)

\* an undefined element is written as null
ItemText(a, n, pretty) ==
  ((IF n = 1 THEN <<>> ELSE <<P(",")>>) \o Sep(pretty))
  \o Stringify(IF a[n] = Undefined THEN Null ELSE a[n], pretty)

\* the first n elements of an array
StringifyItems(a, n, pretty) ==
  IF n = 0 THEN <<>> ELSE StringifyItems(a, n - 1, pretty) \o ItemText(a, n, pretty)

Bracketed(open, body, close, pretty) ==
  IF body = <<>> THEN <<P(open), P(close)>>
  ELSE <<P(open)>> \o body \o Sep(pretty) \o <<P(close)>>

\* JSON.stringify(v) and JSON.stringify(v, null, 2)
Stringify(v, pretty) ==
  CASE v.k = "string" -> <<StrTok(v.s)>>
    [] v.k = "number" -> <<NumTok(v.n)>>
    [] v.k = "boolean" -> <<LitTok(IF v.b THEN "true" ELSE "false")>>
    [] v.k = "null" -> <<LitTok("null")>>
    [] v.k = "array" -> Bracketed("[", StringifyItems(v.a, Len(v.a), pretty), "]", pretty)
    [] v.k = "object" -> Bracketed("{", StringifyEntries(v.e, Len(v.e), pretty), "}", pretty)
    [] OTHER -> <<>>

-----------------------------------------------------------------------------
(* The zod shapes.  A shape is data; Validate interprets it the way zod's   *)
(* parse does: issues are collected depth-first in shape order, z.object    *)
(* strips unknown keys and lays its output out in shape order, z.record     *)
(* keeps the input's keys in the input's order.                            *)

ZString == [z |-> "string"]
ZNumber == [z |-> "number"]
ZBoolean == [z |-> "boolean"]
ZUnknown == [z |-> "unknown"]
ZLazySchemaObject == [z |-> "lazy"]
ZOpt(d) == [z |-> "optional", of |-> d]
ZArray(d) == [z |-> "array", of |-> d]
ZRecord(d) == [z |-> "record", of |-> d]
ZObject(shape) == [z |-> "object", shape |-> shape]
ZUnion(a, b) == [z |-> "union", a |-> a, b |-> b]

ZRefOnly == ZObject(<< <<"$ref", ZString>> >>)

SchemaObject ==
  ZObject(<<
    <<"type", ZOpt(ZString)>>,
    <<"format", ZOpt(ZString)>>,
    <<"properties", ZOpt(ZRecord(ZLazySchemaObject))>>,
    <<"items", ZOpt(ZUnion(ZLazySchemaObject, ZRefOnly))>>,
    <<"$ref", ZOpt(ZString)>>,
    <<"example", ZOpt(ZUnknown)>>,
    <<"enum", ZOpt(ZArray(ZUnknown))>>,
    <<"required", ZOpt(ZArray(ZString))>>,
    <<"additionalProperties", ZOpt(ZUnknown)>>,
    <<"xml", ZOpt(ZUnknown)>>,
    <<"description", ZOpt(ZString)>>,
    <<"default", ZOpt(ZUnknown)>>,
    <<"maximum", ZOpt(ZNumber)>>,
    <<"minimum", ZOpt(ZNumber)>>,
    <<"collectionFormat", ZOpt(ZString)>>,
    <<"title", ZOpt(ZString)>>,
    <<"allOf", ZOpt(ZArray(ZUnion(ZLazySchemaObject, ZRefOnly)))>> >>)

ZParameter ==
  ZObject(<<
    <<"name", ZString>>,
    <<"in", ZString>>,
    <<"description", ZOpt(ZString)>>,
    <<"required", ZOpt(ZBoolean)>>,
    <<"type", ZOpt(ZString)>>,
    <<"format", ZOpt(ZString)>>,
    <<"schema", ZOpt(ZLazySchemaObject)>>,
    <<"items", ZOpt(ZUnknown)>>,
    <<"collectionFormat", ZOpt(ZString)>>,
    <<"maximum", ZOpt(ZNumber)>>,
    <<"minimum", ZOpt(ZNumber)>>,
    <<"example", ZOpt(ZUnknown)>> >>)

ZMediaType ==
  ZObject(<<
    <<"schema", ZUnion(ZLazySchemaObject, ZRefOnly)>>,
    <<"example", ZOpt(ZUnknown)>>,
    <<"examples", ZOpt(ZRecord(ZObject(<< <<"summary", ZOpt(ZString)>>,
                                          <<"value", ZUnknown>> >>)))>> >>)

OperationObjectSchema ==
  ZObject(<<
    <<"summary", ZOpt(ZString)>>,
    <<"description", ZOpt(ZString)>>,
    <<"operationId", ZOpt(ZString)>>,
    <<"tags", ZOpt(ZArray(ZString))>>,
    <<"consumes", ZOpt(ZArray(ZString))>>,
    <<"produces", ZOpt(ZArray(ZString))>>,
    <<"parameters", ZOpt(ZArray(ZParameter))>>,
    <<"requestBody", ZOpt(ZObject(<< <<"content", ZRecord(ZMediaType)>>,
                                     <<"required", ZOpt(ZBoolean)>>,
                                     <<"description", ZOpt(ZString)>> >>))>>,
    <<"responses", ZRecord(ZObject(<< <<"description", ZOpt(ZString)>>,
                                      <<"schema", ZOpt(ZLazySchemaObject)>>,
                                      <<"headers", ZOpt(ZRecord(ZUnknown))>>,
                                      <<"content", ZOpt(ZRecord(ZMediaType))>> >>))>>,
    <<"security", ZOpt(ZArray(ZRecord(ZArray(ZString))))>>,
    <<"deprecated", ZOpt(ZBoolean)>> >>)

ZExternalDocs ==
  ZOpt(ZObject(<< <<"description", ZOpt(ZString)>>, <<"url", ZOpt(ZString)>> >>))

OpenAPISchema ==
  ZObject(<<
    <<"swagger", ZOpt(ZString)>>,
    <<"openapi", ZOpt(ZString)>>,
    <<"info", ZObject(<<
        <<"title", ZString>>,
        <<"version", ZString>>,
        <<"description", ZOpt(ZString)>>,
        <<"termsOfService", ZOpt(ZString)>>,
        <<"contact", ZOpt(ZObject(<< <<"email", ZOpt(ZString)>> >>))>>,
        <<"license", ZOpt(ZObject(<< <<"name", ZOpt(ZString)>>, <<"url", ZOpt(ZString)>> >>))>> >>)>>,
    <<"host", ZOpt(ZString)>>,
    <<"basePath", ZOpt(ZString)>>,
    <<"schemes", ZOpt(ZArray(ZString))>>,
    <<"consumes", ZOpt(ZArray(ZString))>>,
    <<"produces", ZOpt(ZArray(ZString))>>,
    <<"tags", ZOpt(ZArray(ZObject(<< <<"name", ZString>>,
                                     <<"description", ZOpt(ZString)>>,
                                     <<"externalDocs", ZExternalDocs>> >>)))>>,
    <<"paths", ZRecord(ZRecord(OperationObjectSchema))>>,
    <<"components", ZOpt(ZObject(<< <<"schemas", ZRecord(ZLazySchemaObject)>>,
                                    <<"securitySchemes", ZOpt(ZRecord(ZUnknown))>> >>))>>,
    <<"definitions", ZOpt(ZRecord(ZLazySchemaObject))>>,
    <<"securityDefinitions", ZOpt(ZRecord(ZUnknown))>>,
    <<"externalDocs", ZExternalDocs>> >>)

Issue(code, path) == [code |-> code, path |-> path]

Valid(v) == [issues |-> <<>>, value |-> v]

Invalid(issues) == [issues |-> issues, value |-> Undefined]

\* The parse results of the members of a container are held as a set of
\* <<position, result>> pairs.
At(results, i) == (CHOOSE p \in results : p[1] = i)[2]

\* the m-th smallest position of a set of positions
Nth(positions, m) ==
  CHOOSE i \in positions : Cardinality({h \in positions : h < i}) = m - 1

\* <<position, index of an issue of the result at that position>>
IssuePositions(results) ==
  UNION { {<<p[1], j>> : j \in 1..Len(p[2].issues)} : p \in results }

IssueBefore(q, p) == q[1] < p[1] \/ (q[1] = p[1] /\ q[2] < p[2])

NthIssue(results, positions, m) ==
  CHOOSE p \in positions : Cardinality({q \in positions : IssueBefore(q, p)}) = m - 1

IssueAt(results, p) == At(results, p[1]).issues[p[2]]

\* the issues of all members, in member order
AllIssues(results) ==
  [m \in 1..Cardinality(IssuePositions(results)) |->
     IssueAt(results, NthIssue(results, IssuePositions(results), m))]

NoIssues(results) == \A p \in results : p[2].issues = <<>>

\* a key of a z.object is kept when its parsed value is defined or the input
\* has the key
KeptKeys(shape, v, results) ==
  { p[1] : p \in { q \in results : q[2].value # Undefined \/ HasKey(v, shape[q[1]][1]) } }

ShapeEntry(shape, results, i) == <<shape[i][1], At(results, i).value>>

\* the output of a z.object: the kept keys, in shape order
ShapeEntries(shape, results, kept) ==
  [m \in 1..Cardinality(kept) |-> ShapeEntry(shape, results, Nth(kept, m))]

ShapeResult(shape, v, results) ==
  IF NoIssues(results)
  THEN Valid(Obj(ShapeEntries(shape, results, KeptKeys(shape, v, results))))
  ELSE Invalid(AllIssues(results))

\* the output of a z.record: every key of the input, in input order
RecordResult(entries, results) ==
  IF NoIssues(results)
  THEN Valid(Obj([i \in 1..Len(entries) |-> <<entries[i][1], At(results, i).value>>]))
  ELSE Invalid(AllIssues(results))

ItemsResult(items, results) ==
  IF NoIssues(results)
  THEN Valid(Arr([i \in 1..Len(items) |-> At(results, i).value]))
  ELSE Invalid(AllIssues(results))

\* z.union: the first member that accepts the input, else one invalid_union
UnionResult(ra, rb, path) ==
  IF ra.issues = <<>> THEN ra
  ELSE IF rb.issues = <<>> THEN rb
  ELSE Invalid(<<Issue("invalid_union", path)>>)

\* A variant that accepts every input as it is
Validate_Lenient(d, v, path) == Valid(v)

RECURSIVE Validate(_, _, _)

ValidateShape(shape, v, path) ==
  ShapeResult(shape, v,
    { <<i, Validate(shape[i][2], Get(v, shape[i][1]), Append(path, Str(shape[i][1])))>> :
        i \in 1..Len(shape) })

ValidateRecord(d, entries, path) ==
  RecordResult(entries,
    { <<i, Validate(d, entries[i][2], Append(path, Str(entries[i][1])))>> :
        i \in 1..Len(entries) })

ValidateItems(d, items, path) ==
  ItemsResult(items,
    { <<i, Validate(d, items[i], Append(path, Num(i - 1)))>> : i \in 1..Len(items) })

\* schema.parse(v) without the throw: the issues, and the parsed value when
\* there are none
Validate(d, v, path) ==
  CASE d.z = "unknown" -> Valid(v)
    [] d.z = "optional" -> IF v = Undefined THEN Valid(v) ELSE Validate(d.of, v, path)
    [] d.z = "lazy" -> Validate(SchemaObject, v, path)
    [] d.z \in {"string", "number", "boolean"} ->
         IF v.k = d.z THEN Valid(v) ELSE Invalid(<<Issue("invalid_type", path)>>)
    [] d.z = "array" ->
         IF v.k # "array" THEN Invalid(<<Issue("invalid_type", path)>>)
         ELSE ValidateItems(d.of, v.a, path)
    [] d.z = "record" ->
         IF v.k # "object" THEN Invalid(<<Issue("invalid_type", path)>>)
         ELSE ValidateRecord(d.of, v.e, path)
    [] d.z = "object" ->
         IF v.k # "object" THEN Invalid(<<Issue("invalid_type", path)>>)
         ELSE ValidateShape(d.shape, v, path)
    [] d.z = "union" ->
         UnionResult(Validate(d.a, v, path), Validate(d.b, v, path), path)

-----------------------------------------------------------------------------
(* parseOpenAPI on the React state of OpenAPIPage *)

\* e.message of the SyntaxError thrown by JSON.parse
SyntaxErrorMessage(r) == [k |-> "message", of |-> "SyntaxError", at |-> r.i]

\* e.message of a ZodError: the JSON rendering of its issue list
ZodErrorMessage(issues) == [k |-> "message", of |-> "ZodError", issues |-> issues]

\* tags.add(tag) on a Set kept in insertion order
AddTag(tags, tag) == IF \E i \in 1..Len(tags) : tags[i] = tag THEN tags ELSE Append(tags, tag)

RECURSIVE AddTags(_, _)
AddTags(tags, list) ==
  IF list = <<>> THEN tags ELSE AddTags(AddTag(tags, list[1].s), Tail(list))

\* if (operation.tags && operation.tags.length > 0) ... else tags.add(defaultTag)
OperationTags(tags, operation) ==
  LET declared == Get(operation, "tags") IN
  IF Truthy(declared) /\ Len(declared.a) > 0 THEN AddTags(tags, declared.a)
  ELSE AddTag(tags, DefaultTag)

RECURSIVE CollectMethodTags(_, _)
CollectMethodTags(tags, methods) ==
  IF methods = <<>> THEN tags
  ELSE CollectMethodTags(OperationTags(tags, methods[1][2]), Tail(methods))

RECURSIVE CollectTags(_, _)
CollectTags(tags, paths) ==
  IF paths = <<>> THEN tags
  ELSE CollectTags(CollectMethodTags(tags, OwnEntries(paths[1][2])), Tail(paths))

\* newCollapsedState[tag] = false for every tag of the document
NewCollapsedState(validated) ==
  LET tags == CollectTags(<<>>, OwnEntries(Get(validated, "paths"))) IN
  Obj(PutAll(<<>>, [i \in 1..Len(tags) |-> <<tags[i], Bool(FALSE)>>]))

\* A variant whose catch block reports the error and keeps the Document
parseOpenAPI_KeepsDocument(st, jsonContent) ==
  LET parsed == JSONparse(jsonContent)
      validated == Validate(OpenAPISchema, parsed.v, <<>>)
  IN IF ~parsed.ok THEN [st EXCEPT !.error = SyntaxErrorMessage(parsed)]
     ELSE IF validated.issues # <<>> THEN [st EXCEPT !.error = ZodErrorMessage(validated.issues)]
     ELSE [st EXCEPT !.error = Null, !.apiDoc = validated.value, !.inputValue = jsonContent,
                     !.collapsedTags = NewCollapsedState(validated.value)]

\* A variant that does not begin with setError(null)
parseOpenAPI_KeepsError(st, jsonContent) ==
  LET parsed == JSONparse(jsonContent)
      validated == Validate(OpenAPISchema, parsed.v, <<>>)
  IN IF ~parsed.ok THEN [st EXCEPT !.error = SyntaxErrorMessage(parsed), !.apiDoc = Null]
     ELSE IF validated.issues # <<>>
     THEN [st EXCEPT !.error = ZodErrorMessage(validated.issues), !.apiDoc = Null]
     ELSE [st EXCEPT !.apiDoc = validated.value, !.inputValue = jsonContent,
                     !.collapsedTags = NewCollapsedState(validated.value)]

\* The state updates parseOpenAPI queues, applied to the state st
parseOpenAPI(st, jsonContent) ==
  LET parsed == JSONparse(jsonContent)
      validated == Validate(OpenAPISchema, parsed.v, <<>>)
  IN
  IF ~parsed.ok
  THEN [st EXCEPT !.error = SyntaxErrorMessage(parsed), !.apiDoc = Null]
  ELSE IF validated.issues # <<>>
  THEN [st EXCEPT !.error = ZodErrorMessage(validated.issues), !.apiDoc = Null]
  ELSE [st EXCEPT !.error = Null,
                  !.apiDoc = validated.value,
                  !.inputValue = jsonContent,
                  !.collapsedTags = NewCollapsedState(validated.value)]

-----------------------------------------------------------------------------
(* Inputs of parseOpenAPI *)

PetRef == JsObj(<< <<"$ref", Str(RefPrefix \o "Pet")>> >>)

\* An OpenAPI 3.0 document as a user writes it, with keys the shape does not know
RawDoc3 ==
  JsObj(<<
    <<"openapi", Str("3.0.0")>>,
    <<"info", JsObj(<< <<"title", Str("Pets")>>, <<"version", Str("1.0")>> >>)>>,
    <<"servers", Arr(<<>>)>>,
    <<"paths", JsObj(<<
        <<"/pets", JsObj(<<
            <<"get", JsObj(<<
                <<"tags", Arr(<<Str("pets")>>)>>,
                <<"responses", JsObj(<<
                    <<"200", JsObj(<<
                        <<"description", Str("ok")>>,
                        <<"content", JsObj(<< <<"application/json",
                              JsObj(<< <<"schema", PetRef>> >>)>> >>)>> >>)>> >>)>> >>)>>,
            <<"post", JsObj(<<
                <<"requestBody", JsObj(<< <<"content", JsObj(<< <<"application/json",
                      JsObj(<< <<"schema", PetRef>> >>)>> >>)>> >>)>>,
                <<"responses", JsObj(<<
                    <<"201", JsObj(<< <<"description", Str("created")>> >>)>> >>)>> >>)>> >>)>> >>)>>,
    <<"components", JsObj(<< <<"schemas", JsObj(<<
        <<"Pet", JsObj(<<
            <<"type", Str("object")>>,
            <<"properties", JsObj(<<
                <<"id", TypeOnly("integer")>>,
                <<"name", JsObj(<< <<"type", Str("string")>>,
                                   <<"nullable", Bool(TRUE)>> >>)>> >>)>> >>)>> >>)>> >>)>> >>)

\* A Swagger 2.0 document: schemas under definitions, an operation with tags: []
RawDoc2 ==
  JsObj(<<
    <<"swagger", Str("2.0")>>,
    <<"info", JsObj(<< <<"title", Str("Old")>>, <<"version", Str("0.1")>> >>)>>,
    <<"paths", JsObj(<<
        <<"/old", JsObj(<<
            <<"get", JsObj(<<
                <<"tags", Arr(<<>>)>>,
                <<"responses", JsObj(<<
                    <<"200", JsObj(<<
                        <<"description", Str("ok")>>,
                        <<"schema", JsObj(<< <<"$ref", Str("#/definitions/Old")>> >>)>> >>)>> >>)>> >>)>> >>)>> >>)>>,
    <<"definitions", JsObj(<< <<"Old", TypeOnly("boolean")>> >>)>> >>)

RECURSIVE SetAt(_, _, _)
\* the value v with the member at path replaced by x (Undefined: removed on output)
SetAt(v, path, x) ==
  IF path = <<>> THEN x
  ELSE Obj(PutEntry(v.e, path[1], SetAt(Get(v, path[1]), Tail(path), x)))

NoDefect == [path |-> <<>>, put |-> Undefined, also |-> FALSE]

\* One ill-shaped member: the member at path is replaced by put (or removed).
\* With also, info.title is ill-typed too.
Defects3 ==
  { [path |-> <<"info">>, put |-> Undefined, also |-> FALSE],
    [path |-> <<"info", "title">>, put |-> Num(1), also |-> FALSE],
    [path |-> <<"info", "version">>, put |-> Undefined, also |-> FALSE],
    [path |-> <<"paths">>, put |-> Undefined, also |-> FALSE],
    [path |-> <<"paths">>, put |-> Arr(<<>>), also |-> TRUE],
    [path |-> <<"paths", "/pets", "parameters">>, put |-> Arr(<<>>), also |-> FALSE],
    [path |-> <<"paths", "/pets", "get", "responses">>, put |-> Undefined, also |-> FALSE],
    [path |-> <<"paths", "/pets", "get", "tags">>, put |-> Str("pets"), also |-> FALSE],
    [path |-> <<"paths", "/pets", "post", "requestBody", "content", "application/json", "schema">>,
     put |-> Undefined, also |-> FALSE],
    [path |-> <<"components", "schemas">>, put |-> Undefined, also |-> FALSE],
    [path |-> <<"components", "schemas", "Pet", "type">>, put |-> Num(5), also |-> FALSE] }

Defects2 ==
  { [path |-> <<"info">>, put |-> Null, also |-> FALSE],
    [path |-> <<"paths", "/old", "get", "responses", "200", "schema", "properties">>,
     put |-> Arr(<<>>), also |-> FALSE],
    [path |-> <<"definitions", "Old", "type">>, put |-> Bool(TRUE), also |-> FALSE],
    [path |-> <<"definitions">>, put |-> Null, also |-> TRUE] }

\* The document a case describes
CaseDoc(c) ==
  LET d1 == IF c.defect = NoDefect THEN c.doc ELSE SetAt(c.doc, c.defect.path, c.defect.put)
  IN IF c.defect.also THEN SetAt(d1, <<"info", "title">>, Num(1)) ELSE d1

Malformations ==
  {"none", "trailing-comma", "truncated", "trailing-brace", "no-colon", "empty", "blank"}

\* The text of a case: the document's serialization, possibly damaged
Malform(text, how) ==
  LET n == Len(text)
      colon == CHOOSE i \in 1..n : text[i] = P(":") /\ \A j \in 1..(i - 1) : text[j] # P(":")
  IN
  CASE how = "trailing-comma" -> SubSeq(text, 1, n - 1) \o <<P(","), text[n]>>
    [] how = "truncated" -> SubSeq(text, 1, n - 1)
    [] how = "trailing-brace" -> text \o <<Ws, P("}")>>
    [] how = "no-colon" -> SubSeq(text, 1, colon - 1) \o SubSeq(text, colon + 1, n)
    [] how = "empty" -> <<>>
    [] how = "blank" -> <<Ws, Ws>>
    [] OTHER -> text

CaseText(c) == Malform(Stringify(CaseDoc(c), c.pretty), c.malform)

ParseCases ==
  [doc : {RawDoc3}, defect : {NoDefect} \cup Defects3, pretty : BOOLEAN, malform : Malformations]
  \cup
  [doc : {RawDoc2}, defect : {NoDefect} \cup Defects2, pretty : BOOLEAN, malform : Malformations]

\* States parseOpenAPI can be called in: nothing held, a Document held,
\* an error held
HeldStates ==
  { InitialState,
    parseOpenAPI([InitialState EXCEPT !.isSelectionMode = TRUE, !.selectedApis = {"get::/old"}],
                 Stringify(RawDoc2, FALSE)),
    parseOpenAPI(InitialState, Malform(Stringify(RawDoc3, TRUE), "truncated")) }

InitParse ==
  /\ PageIdle
  /\ pc = "ready"
  /\ arg \in [st : HeldStates, case : ParseCases]
  /\ out = Undefined

\* One call of parseOpenAPI on the text of the case
Parse ==
  /\ pc = "ready"
  /\ pc' = "done"
  /\ out' = parseOpenAPI(arg.st, CaseText(arg.case))
  /\ UNCHANGED <<arg, pageVars>>

NextParse == Parse

SpecParse == InitParse /\ [][NextParse]_vars

-----------------------------------------------------------------------------
(* OpenAPIPage: handlers, renders and effects.  One action is one event:    *)
(* the handler's batched state updates, the render they cause, and the      *)
(* effects that render runs.                                                *)

\* Boolean(inputValue.trim())
HasContent(st) == ~IsBlank(st.inputValue)

\* The blank-input effect (deps: inputValue)
BlankEffect(st) ==
  IF ~HasContent(st)
  THEN [st EXCEPT !.isSelectionMode = FALSE, !.copyWithDesc = FALSE,
                  !.error = Null, !.apiDoc = Null]
  ELSE st

\* The record the save effect writes (deps: its five fields)
SavedState(st) ==
  [ inputValue |-> st.inputValue,
    leftPanelWidth |-> st.leftPanelWidth,
    isLeftPanelCollapsed |-> st.isLeftPanelCollapsed,
    collapsedTags |-> st.collapsedTags,
    isNavVisible |-> st.isNavVisible ]

\* A variant whose effect returns no cleanup
CancelTimer_Omitted(pending, text) == pending

\* return () => clearTimeout(timer): the cleanup of the debounce effect clears
\* the timer its previous run set, the one that captured the previous text
CancelTimer(pending, text) == pending \ {text}

\* A variant whose effect sets no timer
ScheduleParse_Never(pending, text) == pending

\* const timer = setTimeout(() => { ... parseOpenAPI(inputValue) ... }, 1000)
ScheduleParse(pending, text) == pending \cup {text}

\* The render that follows a batch of updates, and its effects, in declaration
\* order: blank-input effect, save effect, debounce effect.  prev is the state
\* of the previous render, next the state after the batch.
AfterRender(prev, next, stored, pending) ==
  LET inputChanged == next.inputValue # prev.inputValue IN
  [ ui |-> IF inputChanged THEN BlankEffect(next) ELSE next,
    storage |-> IF SavedState(next) # SavedState(prev) THEN SavedState(next) ELSE stored,
    timers |-> IF inputChanged
               THEN ScheduleParse(CancelTimer(pending, prev.inputValue), next.inputValue)
               ELSE pending,
    cleared |-> IF inputChanged THEN pending \cap {prev.inputValue} ELSE {} ]

\* A valid document standing for the imported exampleJson (public/example.json),
\* which the example dialog offers
ExampleJson ==
  JsObj(<<
    <<"openapi", Str("3.0.0")>>,
    <<"info", JsObj(<< <<"title", Str("Example")>>, <<"version", Str("1.0")>> >>)>>,
    <<"paths", JsObj(<< <<"/example", JsObj(<< <<"get", JsObj(<<
        <<"tags", Arr(<<Str("example")>>)>>,
        <<"responses", JsObj(<< <<"200", JsObj(<< <<"description", Str("ok")>> >>)>> >>)>> >>)>> >>)>> >>)>> >>)

Doc3Text == Stringify(RawDoc3, TRUE)

Doc2Text == Stringify(RawDoc2, FALSE)

MalformedText == Malform(Doc2Text, "trailing-comma")

ViolationText == Stringify(SetAt(RawDoc2, <<"info", "version">>, Undefined), FALSE)

\* The texts the editor can hold
EditorTexts == { <<>>, <<Ws>>, Doc3Text, Doc2Text, MalformedText, ViolationText }

\* Records an earlier session can have saved
SavedRecords ==
  { SavedState([InitialState EXCEPT !.inputValue = Doc3Text,
                                    !.collapsedTags = JsObj(<< <<"pets", Bool(FALSE)>>,
                                                               <<"default", Bool(TRUE)>> >>),
                                    !.isNavVisible = FALSE]),
    SavedState([InitialState EXCEPT !.inputValue = MalformedText,
                                    !.isLeftPanelCollapsed = TRUE]) }

\* The contents of the files a user hands to the page
FileTexts == { Doc3Text, Doc2Text }

\* The texts a debounce timer can have captured
TimerTexts == EditorTexts \cup {Stringify(ExampleJson, TRUE)} \cup FileTexts

\* Every text the page can hand to parseOpenAPI
PageTexts == TimerTexts \cup { r.inputValue : r \in SavedRecords }

\* a state field no update is queued for
Unset == [k |-> "unset"]

\* The updates parseOpenAPI queues for each text of the page: they are
\* setState calls with values, the same whatever the state is
QueuedUpdates ==
  { <<text, parseOpenAPI([f \in DOMAIN InitialState |-> Unset], text)>> : text \in PageTexts }

\* A call of parseOpenAPI by the page: its queued updates applied to st
Call_parseOpenAPI(st, jsonContent) ==
  LET queued == (CHOOSE q \in QueuedUpdates : q[1] = jsonContent)[2] IN
  [f \in DOMAIN InitialState |-> IF queued[f] = Unset THEN st[f] ELSE queued[f]]

\* The load effect: the saved fields, then parseOpenAPI on a non-empty saved text
LoadEffect(st, saved) ==
  LET loaded == [st EXCEPT !.inputValue = saved.inputValue,
                           !.leftPanelWidth = saved.leftPanelWidth,
                           !.isLeftPanelCollapsed = saved.isLeftPanelCollapsed,
                           !.collapsedTags = saved.collapsedTags,
                           !.isNavVisible = saved.isNavVisible]
  IN IF saved.inputValue # <<>> THEN Call_parseOpenAPI(loaded, saved.inputValue) ELSE loaded

InitPage ==
  /\ pc = "page"
  /\ arg = Undefined
  /\ out = Undefined
  /\ mounted = FALSE
  /\ ui = InitialState
  /\ storage \in {Null} \cup SavedRecords
  /\ timers = {}
  /\ reads = <<>>
  /\ last = NoStep

\* The first render and its effects (load, blank-input, save, debounce, all
\* closed over the initial state), then the render their updates cause.
Mount ==
  /\ ~mounted
  /\ \E loaded \in {IF storage # Null THEN LoadEffect(InitialState, storage) ELSE InitialState} :
     LET batch == BlankEffect([loaded EXCEPT !.inputValue = InitialState.inputValue])
         next == [batch EXCEPT !.inputValue = loaded.inputValue]
         r == AfterRender(InitialState, next, SavedState(InitialState),
                          ScheduleParse({}, InitialState.inputValue))
     IN /\ ui' = r.ui
        /\ storage' = r.storage
        /\ timers' = r.timers
        /\ last' = [op |-> "mount",
                    parsed |-> IF storage # Null /\ storage.inputValue # <<>>
                               THEN <<storage.inputValue>> ELSE <<>>,
                    cleared |-> r.cleared,
                    loaded |-> storage]
  /\ mounted' = TRUE
  /\ UNCHANGED <<reads, pureVars>>

\* The page is closed or reloaded: state and timers are gone, storage stays
Unload ==
  /\ mounted
  /\ mounted' = FALSE
  /\ ui' = InitialState
  /\ timers' = {}
  /\ reads' = <<>>
  /\ last' = [NoStep EXCEPT !.op = "unload"]
  /\ UNCHANGED <<storage, pureVars>>

\* handleEditorChange(value)
handleEditorChange(value) ==
  /\ mounted
  /\ LET r == AfterRender(ui, [ui EXCEPT !.inputValue = value], storage, timers) IN
       /\ ui' = r.ui
       /\ storage' = r.storage
       /\ timers' = r.timers
       /\ last' = [op |-> "edit", parsed |-> <<>>, cleared |-> r.cleared]
  /\ UNCHANGED <<mounted, reads, pureVars>>

\* The debounce timer that captured text fires
TimerFire(text) ==
  /\ mounted
  /\ text \in timers
  /\ \E next \in {IF ~IsBlank(text) THEN Call_parseOpenAPI(ui, text) ELSE ui} :
     LET r == AfterRender(ui, next, storage, timers \ {text})
     IN /\ ui' = r.ui
        /\ storage' = r.storage
        /\ timers' = r.timers
        /\ last' = [op |-> "timer",
                    parsed |-> IF ~IsBlank(text) THEN <<text>> ELSE <<>>,
                    cleared |-> r.cleared]
  /\ UNCHANGED <<mounted, reads, pureVars>>

\* FileActions onClear (offered when the input has content)
onClear ==
  /\ mounted
  /\ HasContent(ui)
  /\ LET r == AfterRender(ui, [ui EXCEPT !.inputValue = <<>>, !.apiDoc = Null, !.error = Null],
                          storage, timers)
     IN /\ ui' = r.ui
        /\ storage' = r.storage
        /\ timers' = r.timers
        /\ last' = [op |-> "clear", parsed |-> <<>>, cleared |-> r.cleared]
  /\ UNCHANGED <<mounted, reads, pureVars>>

\* FileActions onExampleSelect (offered when the input has no content)
onExampleSelect ==
  /\ mounted
  /\ ~HasContent(ui)
  /\ \E content \in {Stringify(ExampleJson, TRUE)} :
     \E next \in {Call_parseOpenAPI([ui EXCEPT !.inputValue = content], content)} :
     LET r == AfterRender(ui, next, storage, timers)
     IN /\ ui' = r.ui
        /\ storage' = r.storage
        /\ timers' = r.timers
        /\ last' = [op |-> "example", parsed |-> <<content>>, cleared |-> r.cleared]
  /\ UNCHANGED <<mounted, reads, pureVars>>

\* The render a handler's batch of updates causes, with its effects
Render(op, next, pending, parsed) ==
  LET r == AfterRender(ui, next, storage, pending) IN
    /\ ui' = r.ui
    /\ storage' = r.storage
    /\ timers' = r.timers
    /\ last' = [op |-> op, parsed |-> parsed, cleared |-> r.cleared]

\* FileReaders one page keeps at most
MaxReads == 2

\* handleFileUpload: the file chosen in the file input gets a FileReader,
\* reader.onload = ...; reader.readAsText(file)
handleFileUpload(content) ==
  /\ mounted
  /\ Len(reads) < MaxReads
  /\ reads' = Append(reads, [content |-> content, loaded |-> FALSE])
  /\ last' = [NoStep EXCEPT !.op = "upload"]
  /\ UNCHANGED <<mounted, ui, storage, timers, pureVars>>

\* handleDrop: the file dropped on the page gets a FileReader,
\* reader.onload = ...; reader.readAsText(file)
handleDrop(content) ==
  /\ mounted
  /\ Len(reads) < MaxReads
  /\ reads' = Append(reads, [content |-> content, loaded |-> FALSE])
  /\ last' = [NoStep EXCEPT !.op = "drop"]
  /\ UNCHANGED <<mounted, ui, storage, timers, pureVars>>

\* reader.onload of the i-th reader: its read has completed, in whatever order
onload(i) ==
  /\ mounted
  /\ i \in 1..Len(reads)
  /\ ~reads[i].loaded
  /\ reads' = [reads EXCEPT ![i].loaded = TRUE]
  /\ Render("onload", [ui EXCEPT !.inputValue = reads[i].content], timers, <<>>)
  /\ UNCHANGED <<mounted, pureVars>>

\* FloatingToolbar, "copy with description" (inert without content)
toggleCopyWithDesc ==
  /\ mounted
  /\ HasContent(ui)
  /\ Render("copyWithDesc", [ui EXCEPT !.copyWithDesc = ~ui.copyWithDesc], timers, <<>>)
  /\ UNCHANGED <<mounted, reads, pureVars>>

\* FloatingToolbar, "batch selection" (inert without content)
toggleSelectionMode ==
  /\ mounted
  /\ HasContent(ui)
  /\ Render("selectionMode",
            [ui EXCEPT !.isSelectionMode = ~ui.isSelectionMode,
                       !.selectedApis = IF ui.isSelectionMode THEN {} ELSE @],
            timers, <<>>)
  /\ UNCHANGED <<mounted, reads, pureVars>>

\* FloatingToolbar, "exit selection" (shown in selection mode)
exitSelection ==
  /\ mounted
  /\ ui.isSelectionMode
  /\ Render("exitSelection", [ui EXCEPT !.isSelectionMode = FALSE, !.selectedApis = {}],
            timers, <<>>)
  /\ UNCHANGED <<mounted, reads, pureVars>>

\* FloatingToolbar, "deselect all" (shown in selection mode with a selection)
deselectAll ==
  /\ mounted
  /\ ui.isSelectionMode
  /\ ui.selectedApis # {}
  /\ Render("deselectAll", [ui EXCEPT !.selectedApis = {}], timers, <<>>)
  /\ UNCHANGED <<mounted, reads, pureVars>>

\* the operations the page lists: the records of the buckets of pathsByTag
ListedItems(apiDoc) ==
  LET index == pathsByTag(apiDoc) IN
  IF Thrown(index) THEN {}
  ELSE UNION { { index.e[i][2].a[r] : r \in 1..Len(index.e[i][2].a) } : i \in 1..Len(index.e) }

\* toggleApiSelection(method, path): a click on a listed operation in
\* selection mode
toggleApiSelection(method, path) ==
  /\ mounted
  /\ ui.isSelectionMode
  /\ LET apiKey == method \o "::" \o path IN
       Render("select",
              [ui EXCEPT !.selectedApis = IF apiKey \in @ THEN @ \ {apiKey} ELSE @ \cup {apiKey}],
              timers, <<>>)
  /\ UNCHANGED <<mounted, reads, pureVars>>

\* The editor and FileActions
Next ==
  \/ Mount
  \/ Unload
  \/ \E value \in EditorTexts : handleEditorChange(value)
  \/ \E text \in timers : TimerFire(text)
  \/ onClear
  \/ onExampleSelect

Spec == InitPage /\ [][Next]_vars

\* A timer that is set and not cleared fires: the callback of setTimeout runs
\* once its delay has passed
TimersFire == \A text \in TimerTexts : WF_vars(TimerFire(text))

\* The editor and FileActions, with time passing
SpecLive == InitPage /\ [][Next]_vars /\ TimersFire

\* What a user types beside handing files: nothing, or an ill-formed text
TypedTexts == { <<>>, MalformedText }

\* The editor and FileActions, with files uploaded and dropped
NextFiles ==
  \/ Mount
  \/ Unload
  \/ \E value \in TypedTexts : handleEditorChange(value)
  \/ \E text \in timers : TimerFire(text)
  \/ onClear
  \/ onExampleSelect
  \/ \E content \in FileTexts : handleFileUpload(content)
  \/ \E content \in FileTexts : handleDrop(content)
  \/ \E i \in 1..Len(reads) : onload(i)

SpecFiles == InitPage /\ [][NextFiles]_vars

\* What a user types beside using the toolbar: nothing, blanks, or a document
ToolbarTexts == { <<>>, <<Ws>>, Doc3Text }

\* The editor, FileActions and the FloatingToolbar
NextToolbar ==
  \/ Mount
  \/ Unload
  \/ \E value \in ToolbarTexts : handleEditorChange(value)
  \/ \E text \in timers : TimerFire(text)
  \/ onClear
  \/ onExampleSelect
  \/ toggleCopyWithDesc
  \/ toggleSelectionMode
  \/ exitSelection
  \/ deselectAll
  \/ \E item \in ListedItems(ui.apiDoc) :
       toggleApiSelection(Get(item, "method").s, Get(item, "path").s)

SpecToolbar == InitPage /\ [][NextToolbar]_vars

-----------------------------------------------------------------------------
(* Properties of the synthesizer, under SpecSynth *)

\* C1: generateExampleFromSchema terminates on a document whose named schemas
\* form a reference cycle: a name met again within one synthesis call is
\* treated as a cycle, so no call exhausts the call stack.
C1_TerminatesOnCycles == pc = "done" => out # RangeError

\* the node has a property c that refers to the cyclic schema A, beside a
\* sibling property q of type integer
HasCyclicProperty(schema) ==
  /\ Get(Get(schema, "properties"), "c") = Ref("A")
  /\ Get(Get(schema, "properties"), "q") = TypeOnly("integer")

\* C6: generateExampleFromSchema never raises, and a property whose $ref is
\* cyclic degrades alone: the sibling properties get the values they would
\* have without it.
C6_LocalContainment ==
  pc = "done" =>
    /\ ~Thrown(out)
    /\ (Branch(arg.apiDoc, arg.schema) = "object" /\ HasCyclicProperty(arg.schema)
          => Get(out, "q") = Num(0))

\* the node carries a $ref that names no schema of the document, and neither
\* a literal example nor an allOf
UnresolvedRefNode(apiDoc, schema) ==
  /\ Get(schema, "$ref").k = "string"
  /\ Get(schema, "$ref") # Str("")
  /\ RefTarget(apiDoc, schema) = Undefined
  /\ ~HasKey(schema, "example")
  /\ ~HasKey(schema, "allOf")

\* C7: a node whose $ref names a schema absent from components.schemas and
\* from definitions synthesizes to undefined, whatever other fields it carries.
C7_UnresolvedRefIsUndefined ==
  pc = "done" /\ UnresolvedRefNode(arg.apiDoc, arg.schema) => out = Undefined

\* C8: a node with a literal example synthesizes to that example, unchanged,
\* whatever other fields it carries.
C8_LiteralExampleVerbatim ==
  pc = "done" /\ HasKey(arg.schema, "example") => out = Get(arg.schema, "example")

\* C8's case: a falsy literal example beside an allOf and a $ref
C8_Witness ==
  /\ pc = "done"
  /\ Get(arg.schema, "example") = Num(0)
  /\ HasKey(arg.schema, "allOf")
  /\ HasKey(arg.schema, "$ref")
  /\ out = Num(0)

-----------------------------------------------------------------------------
(* Properties of the tag index, under SpecIndex *)

\* the tags of the buckets that hold the operation at (path, method)
BucketsOf(index, path, method) ==
  IF index.k # "object" THEN {} ELSE
  { index.e[i][1] :
      i \in { j \in 1..Len(index.e) :
                \E r \in 1..Len(index.e[j][2].a) :
                   /\ Get(index.e[j][2].a[r], "path") = Str(path)
                   /\ Get(index.e[j][2].a[r], "method") = Str(method) } }

\* tags absent, or an empty list
ZeroTags(operation) == Get(operation, "tags") \in {Undefined, Arr(<<>>)}

\* C2: every operation of the Document is in at least one bucket of pathsByTag,
\* and an operation with zero declared tags is in exactly one, keyed "default".
C2_EveryOperationIndexed ==
  pc = "done" =>
    \A i \in 1..Len(Get(arg, "paths").e) :
      \A j \in 1..Len(Get(arg, "paths").e[i][2].e) :
        LET path == Get(arg, "paths").e[i][1]
            method == Get(arg, "paths").e[i][2].e[j][1]
            operation == Get(arg, "paths").e[i][2].e[j][2]
        IN /\ BucketsOf(out, path, method) # {}
           /\ ZeroTags(operation) => BucketsOf(out, path, method) = {DefaultTag}

-----------------------------------------------------------------------------
(* Properties of parseOpenAPI, under SpecParse *)

\* C3: on text that is not valid JSON, whatever Document was held, apiDoc
\* becomes null and error becomes the parser's message.
C3_InvalidJsonClearsDocument ==
  pc = "done" /\ arg.case.malform # "none" =>
    /\ out.apiDoc = Null
    /\ out.error = SyntaxErrorMessage(JSONparse(CaseText(arg.case)))
    /\ out.error # Null

\* C3's case: a Document is held and the text has a trailing comma
C3_Witness ==
  /\ pc = "done"
  /\ arg.case.malform = "trailing-comma"
  /\ arg.st.apiDoc # Null
  /\ out.apiDoc = Null
  /\ out.error.of = "SyntaxError"

\* the path of the first ill-shaped member of a case, in validation order
FirstDefectPath(c) ==
  IF c.defect.also THEN <<Str("info"), Str("title")>>
  ELSE [i \in 1..Len(c.defect.path) |-> Str(c.defect.path[i])]

\* C4: on text that is JSON but fails OpenAPISchema, apiDoc becomes null and
\* error is a message whose first issue names the first failing field path.
C4_SchemaViolationClearsDocument ==
  pc = "done" /\ arg.case.malform = "none" /\ arg.case.defect # NoDefect =>
    /\ out.apiDoc = Null
    /\ out.error.of = "ZodError"
    /\ out.error.issues[1].path = FirstDefectPath(arg.case)

\* C4's case: a Document is held and the text has two ill-shaped members
C4_Witness ==
  /\ pc = "done"
  /\ arg.case.malform = "none"
  /\ arg.case.defect.also
  /\ arg.st.apiDoc # Null
  /\ out.apiDoc = Null
  /\ Len(out.error.issues) = 2

-----------------------------------------------------------------------------
(* Properties of the extractors, under SpecExtract *)

\* requestBody.content of the item's operation
RequestContent(item) == Get(Get(Get(item, "operation"), "requestBody"), "content")

\* what C9 says the request example is
ClaimedRequestExample(apiDoc, item) ==
  LET first == FirstEntry(RequestContent(item)) IN
  IF first = <<>> THEN Null
  ELSE IF HasKey(first[2], "example") THEN Get(first[2], "example")
  ELSE IF FirstEntry(Get(first[2], "examples")) # <<>>
  THEN FirstEntry(Get(first[2], "examples"))[2]
  ELSE generateExampleFromSchema(apiDoc, Get(first[2], "schema"))

\* C9: the request example comes from the first content-type entry of
\* requestBody.content: its literal example, else the first value of its
\* examples map, else the synthesis of its schema; null without content.
C9_RequestExampleFromFirstEntry ==
  pc = "done" => out.requestExample = ClaimedRequestExample(arg.apiDoc, arg.item)

\* the first content-type entry of the first 2xx response, or <<>>
SelectedResponseEntry(item) ==
  LET successResponse ==
        FindSuccessResponse(OwnEntries(Get(Get(item, "operation"), "responses")))
  IN IF successResponse = <<>> THEN <<>>
     ELSE FirstEntry(Get(successResponse[2], "content"))

\* C10: when the first content-type entry of the selected 2xx response has a
\* literal example, the response example is that literal example, even if an
\* examples map is present too.
C10_LiteralExampleFirst ==
  pc = "done" /\ SelectedResponseEntry(arg.item) # <<>>
              /\ Truthy(Get(SelectedResponseEntry(arg.item)[2], "example")) =>
    Get(out.responseExample, "example") = Get(SelectedResponseEntry(arg.item)[2], "example")

-----------------------------------------------------------------------------
(* Properties of the page, under Spec *)

\* C5: each input change cancels the parse the previous change scheduled, so
\* at most one parse is pending, it is the one for the current text, and a
\* parse that runs runs on the current text.
C5_Debounced ==
  /\ Cardinality(timers) <= 1
  /\ \A text \in timers : text = ui.inputValue
  /\ last.op = "timer" /\ last.parsed # <<>> => last.parsed[1] = ui.inputValue

\* C5's case: an input change has cancelled a pending parse and scheduled one
\* for the new, non-blank text
C5_Witness ==
  /\ last.op = "edit"
  /\ last.cleared # {}
  /\ HasContent(ui)
  /\ timers = {ui.inputValue}

\* the selected entry has a literal example and a schema, and no examples map
ExampleAndSchemaOnly(entry) ==
  /\ entry # <<>>
  /\ HasKey(entry[2], "example")
  /\ HasKey(entry[2], "schema")
  /\ ~HasKey(entry[2], "examples")

\* C11: when the first content-type entry of the first 2xx response has a
\* literal example (any JSON value, 0 and false included) and a schema, and no
\* examples map, the response example is the literal example, not a synthesis.
C11_LiteralBeforeSchema ==
  pc = "done" /\ ExampleAndSchemaOnly(SelectedResponseEntry(arg.item)) =>
    Get(out.responseExample, "example") = Get(SelectedResponseEntry(arg.item)[2], "example")

\* C12: getResponseExample selects, among the responses in declared order, the
\* first whose status-code key starts with "2" and reports that key as code;
\* with no such key the result is null and nothing is raised.
C12_FirstDeclared2xx ==
  pc = "done" =>
    \A l \in ResponseLists :
      Get(Get(arg.item, "operation"), "responses") = JsObj(l) =>
        IF FindSuccessResponse(l) = <<>> THEN out.responseExample = Null
        ELSE /\ ~Thrown(out.responseExample)
             /\ out.responseExample # Null =>
                  Get(out.responseExample, "code") = Str(FindSuccessResponse(l)[1])
             /\ FirstEntry(Get(FindSuccessResponse(l)[2], "content")) # <<>> =>
                  out.responseExample # Null

\* the bucket of tag holds the record rec
InBucket(index, tag, rec) ==
  /\ HasKey(index, tag)
  /\ \E r \in 1..Len(Get(index, tag).a) : Get(index, tag).a[r] = rec

\* C13: an operation that declares N tags is in all N buckets of pathsByTag,
\* each time as the same {path, method, operation} record.
C13_InEveryDeclaredBucket ==
  pc = "done" =>
    \A i \in 1..Len(Get(arg, "paths").e) :
      \A j \in 1..Len(Get(arg, "paths").e[i][2].e) :
        LET path == Get(arg, "paths").e[i][1]
            method == Get(arg, "paths").e[i][2].e[j][1]
            operation == Get(arg, "paths").e[i][2].e[j][2]
            tags == Get(operation, "tags")
        IN tags.k = "array" =>
             \A t \in 1..Len(tags.a) :
               InBucket(out, tags.a[t].s,
                        Obj(<< <<"path", Str(path)>>, <<"method", Str(method)>>,
                               <<"operation", operation>> >>))

\* the operation at path i, method j of the document, in declared order
OperationAt(apiDoc, i, j) == Get(apiDoc, "paths").e[i][2].e[j][2]

\* the steps of the traversal: path i, method j, t-th tag of the operation
Visits(apiDoc) ==
  { <<i, j, t>> \in (1..3) \X (1..3) \X (1..3) :
      /\ i <= Len(Get(apiDoc, "paths").e)
      /\ j <= Len(Get(apiDoc, "paths").e[i][2].e)
      /\ t <= Len(TagsOf(OperationAt(apiDoc, i, j)).a) }

\* the place of a step in the traversal
VisitRank(v) == v[1] * 100 + v[2] * 10 + v[3]

\* the rank of the first step that sees tag
FirstSeen(apiDoc, tag) ==
  LET ranks == { VisitRank(v) :
                   v \in { w \in Visits(apiDoc) :
                             TagsOf(OperationAt(apiDoc, w[1], w[2])).a[w[3]] = Str(tag) } }
  IN CHOOSE n \in ranks : \A m \in ranks : n <= m

\* the rank of the first step at the operation a record was made from
RecordRank(apiDoc, rec) ==
  LET ranks == { VisitRank(v) :
                   v \in { w \in Visits(apiDoc) :
                             /\ Get(rec, "path") = Str(Get(apiDoc, "paths").e[w[1]][1])
                             /\ Get(rec, "method") =
                                  Str(Get(apiDoc, "paths").e[w[1]][2].e[w[2]][1]) } }
  IN CHOOSE n \in ranks : \A m \in ranks : n <= m

\* C14: pathsByTag visits paths, and methods within a path, in declared order;
\* the buckets are in the order in which their tags are first seen, and the
\* records of a bucket in the order in which the traversal appended them.
C14_FirstSeenOrder ==
  pc = "done" /\ out.k = "object" =>
    /\ \A a \in 1..Len(out.e) : \A b \in 1..Len(out.e) :
         a < b => FirstSeen(arg, out.e[a][1]) < FirstSeen(arg, out.e[b][1])
    /\ \A a \in 1..Len(out.e) :
         \A r \in 1..Len(out.e[a][2].a) : \A s \in 1..Len(out.e[a][2].a) :
           r < s => RecordRank(arg, out.e[a][2].a[r]) < RecordRank(arg, out.e[a][2].a[s])

-----------------------------------------------------------------------------
(* Properties of the synthesizer's branches, under SpecSynth *)

\* the entries of a mapping, as a set
EntrySet(v) == { OwnEntries(v)[i] : i \in 1..Len(OwnEntries(v)) }

\* a synthesized value that is merged: typeof 'object' and not null
Mergeable(v) == v.k \in {"object", "array"}

\* the object schema the allOf branch makes of the sibling properties
SiblingSchema(schema) ==
  JsObj(<< <<"type", Str("object")>>, <<"properties", Get(schema, "properties")>> >>)

\* the independent syntheses that an allOf node merges, numbered left to
\* right: one per sub-schema, then the one of the sibling properties
MergeSources(apiDoc, schema) ==
  { <<i, generateExampleFromSchema(apiDoc, Get(schema, "allOf").a[i])>> :
      i \in 1..Len(Get(schema, "allOf").a) }
  \cup IF HasKey(schema, "properties")
       THEN { <<Len(Get(schema, "allOf").a) + 1,
                generateExampleFromSchema(apiDoc, SiblingSchema(schema))>> }
       ELSE {}

\* the entries of the merge: each key with the value of the last source that has it
MergedEntries(sources) ==
  { e \in UNION { EntrySet(p[2]) : p \in { q \in sources : Mergeable(q[2]) } } :
      \E p \in sources :
        /\ Mergeable(p[2])
        /\ e \in EntrySet(p[2])
        /\ \A q \in sources :
             q[1] > p[1] /\ Mergeable(q[2]) => \A f \in EntrySet(q[2]) : f[1] # e[1] }

\* C15: a node with allOf and no literal example synthesizes to the shallow
\* merge, left to right, of the syntheses of its sub-schemas, a later branch
\* overriding an earlier one, merged at the end with the synthesis of the
\* sibling properties.
C15_AllOfMerge ==
  pc = "done" /\ Get(arg.schema, "allOf").k = "array" /\ ~HasKey(arg.schema, "example")
              /\ (\A p \in MergeSources(arg.apiDoc, arg.schema) : ~Thrown(p[2])) =>
    /\ out.k = "object"
    /\ EntrySet(out) = MergedEntries(MergeSources(arg.apiDoc, arg.schema))

\* C15's case: the second branch overrides name, the sibling properties override id
C15_Witness ==
  /\ pc = "done"
  /\ Get(arg.schema, "allOf") \in AllOfLists
  /\ Len(Get(arg.schema, "allOf").a) = 2
  /\ Get(out, "name") = Str("e1")
  /\ Get(out, "id") = Str("string")
  /\ Get(out, "extra") = Str("string")

\* a value without its auxiliary __comment field
StripComment(v) ==
  IF v.k = "object"
  THEN Obj(SelectSeq(v.e, LAMBDA entry : entry[1] # "__comment"))
  ELSE v

\* the node is a reference that resolves, with a title or a description and
\* neither a literal example nor an allOf
CommentedRef(apiDoc, schema) ==
  /\ Get(schema, "$ref").k = "string"
  /\ Truthy(Get(schema, "$ref"))
  /\ Truthy(RefTarget(apiDoc, schema))
  /\ Truthy(CommentOf(schema))
  /\ ~HasKey(schema, "example")
  /\ ~HasKey(schema, "allOf")

\* C16: a $ref node that resolves and carries a title or a description
\* synthesizes to the synthesis of the resolved node with __comment attached;
\* apart from __comment the result is the resolved synthesis, unaltered.
C16_CommentKeepsData ==
  pc = "done" /\ CommentedRef(arg.apiDoc, arg.schema)
              /\ ~Thrown(generateExampleFromSchema(arg.apiDoc, RefTarget(arg.apiDoc, arg.schema))) =>
    /\ StripComment(out) =
         StripComment(generateExampleFromSchema(arg.apiDoc, RefTarget(arg.apiDoc, arg.schema)))
    /\ out.k = "object" => Get(out, "__comment") = CommentOf(arg.schema)

\* the node is synthesized as an object: type "object" or properties, and no
\* literal example, no allOf, no $ref that resolves
ObjectNode(apiDoc, schema) ==
  /\ Get(schema, "type") = Str("object") \/ HasKey(schema, "properties")
  /\ ~HasKey(schema, "example")
  /\ ~HasKey(schema, "allOf")
  /\ ~HasKey(schema, "$ref") \/ RefTarget(apiDoc, schema) = Undefined

\* the syntheses of the declared properties, numbered in declaration order
PropertySyntheses(apiDoc, l) ==
  { <<i, generateExampleFromSchema(apiDoc, l[i][2])>> : i \in 1..Len(l) }

\* the mapping holds the syntheses of the declared properties l (a property
\* that synthesizes to no value is left out), in declaration order
HoldsInOrder(mapping, l, syntheses) ==
  /\ mapping.k = "object"
  /\ \A p \in syntheses :
       IF p[2] = Undefined THEN ~HasKey(mapping, l[p[1]][1])
       ELSE Get(mapping, l[p[1]][1]) = p[2]
  /\ \A p \in syntheses : \A q \in syntheses :
       p[1] < q[1] /\ p[2] # Undefined /\ q[2] # Undefined =>
         KeyPos(mapping.e, l[p[1]][1]) < KeyPos(mapping.e, l[q[1]][1])

\* C17: a node with type "object" or with properties (and no example, allOf or
\* resolvable $ref) synthesizes to a mapping that holds, for each declared
\* property, the synthesis of that property's schema, in declaration order.
C17_PropertiesInDeclaredOrder ==
  pc = "done" /\ ObjectNode(arg.apiDoc, arg.schema) =>
    \A l \in PropertyLists :
      /\ Get(arg.schema, "properties") = JsObj(l)
      /\ \A p \in PropertySyntheses(arg.apiDoc, l) : ~Thrown(p[2])
      /\ ~Thrown(generateExampleFromSchema(arg.apiDoc, Get(arg.schema, "additionalProperties")))
      => HoldsInOrder(out, l, PropertySyntheses(arg.apiDoc, l))

AdditionalNames == {"additionalProp1", "additionalProp2", "additionalProp3"}

\* the names of the declared properties
DeclaredNames(schema) ==
  { OwnEntries(Get(schema, "properties"))[i][1] :
      i \in 1..Len(OwnEntries(Get(schema, "properties"))) }

\* no declared property and no additionalProperties schema raises
PartsSynthesize(apiDoc, schema) ==
  /\ \A i \in 1..Len(OwnEntries(Get(schema, "properties"))) :
       ~Thrown(generateExampleFromSchema(apiDoc, OwnEntries(Get(schema, "properties"))[i][2]))
  /\ ~Thrown(generateExampleFromSchema(apiDoc, Get(schema, "additionalProperties")))

\* the mapping has the three additional properties, each holding value, after
\* the declared properties, and nothing else but them and __comment
ThreeAppended(mapping, declared, value) ==
  /\ \A n \in AdditionalNames : HasKey(mapping, n) /\ Get(mapping, n) = value
  /\ \A i \in 1..Len(mapping.e) :
       /\ mapping.e[i][1] \in declared \cup AdditionalNames \cup {"__comment"}
       /\ mapping.e[i][1] \in declared =>
            \A n \in AdditionalNames : i < KeyPos(mapping.e, n)

ArrayNode(apiDoc, schema) ==
  /\ Get(schema, "type") = Str("array")
  /\ Get(schema, "items").k = "object"
  /\ ~HasKey(schema, "example")
  /\ ~HasKey(schema, "allOf")
  /\ ~HasKey(schema, "properties")
  /\ ~HasKey(schema, "$ref") \/ RefTarget(apiDoc, schema) = Undefined

\* C19: a node with type "array" and items synthesizes to a sequence of exactly
\* one element, the synthesis of the item schema, or to the empty sequence
\* when the item synthesis yields no value.
C19_ArrayOfOne ==
  pc = "done" /\ ArrayNode(arg.apiDoc, arg.schema)
              /\ ~Thrown(generateExampleFromSchema(arg.apiDoc, Get(arg.schema, "items"))) =>
    /\ out.k = "array"
    /\ IF generateExampleFromSchema(arg.apiDoc, Get(arg.schema, "items")) = Undefined
       THEN out.a = <<>>
       ELSE out.a = <<generateExampleFromSchema(arg.apiDoc, Get(arg.schema, "items"))>>

\* C19's case: {type: array, items: {type: string}} yields ["string"]
C19_Witness ==
  /\ pc = "done"
  /\ arg.schema = JsObj(<< <<"type", Str("array")>>, <<"items", TypeOnly("string")>> >>)
  /\ out = Arr(<<Str("string")>>)

\* the node is synthesized by the string rule: type "string", and no earlier
\* rule applies (literal example, allOf, resolvable $ref, properties)
StringNode(apiDoc, schema) ==
  /\ Get(schema, "type") = Str("string")
  /\ ~HasKey(schema, "example")
  /\ ~HasKey(schema, "allOf")
  /\ ~HasKey(schema, "properties")
  /\ ~HasKey(schema, "$ref") \/ RefTarget(apiDoc, schema) = Undefined

\* what C20 says a string node synthesizes to
ClaimedString(schema) ==
  CASE Get(schema, "format") = Str("date") -> Str("2025-04-18")
    [] Get(schema, "format") = Str("date-time") -> Str("2025-04-18T00:00:00")
    [] Get(schema, "format") \notin {Str("date"), Str("date-time")}
         /\ Get(schema, "enum").k = "array" /\ Get(schema, "enum").a # <<>> ->
         Get(schema, "enum").a[1]
    [] OTHER ->
         IF HasKey(schema, "title") THEN Str(ExamplePrefix \o Get(schema, "title").s)
         ELSE IF HasKey(schema, "description")
         THEN Str(ExamplePrefix \o Get(schema, "description").s)
         ELSE Str("string")

\* C20: a node of type "string" that matches no earlier rule synthesizes to,
\* first match winning: the date literal for format date; the date-time
\* literal for format date-time; the first enum value of a non-empty enum; a
\* placeholder built from title, or from description without a title; "string".
C20_StringDefaults ==
  pc = "done" /\ StringNode(arg.apiDoc, arg.schema) => out = ClaimedString(arg.schema)

\* C20's case: no date format, an empty enum, a title and a description
C20_Witness ==
  /\ pc = "done"
  /\ Get(arg.schema, "type") = Str("string")
  /\ Get(arg.schema, "format") = Str("uuid")
  /\ Get(arg.schema, "enum") = Arr(<<>>)
  /\ HasKey(arg.schema, "title")
  /\ HasKey(arg.schema, "description")
  /\ out = Str(ExamplePrefix \o "T")

(***************************************************************************)
(* OpenAPI 2.0 and 3.0 documents, under SpecParse *)

\* a document that has info.title, info.version and paths
HasTitleVersionPaths(d) ==
  /\ Get(d, "info").k = "object"
  /\ Get(Get(d, "info"), "title").k = "string"
  /\ Get(Get(d, "info"), "version").k = "string"
  /\ Get(d, "paths").k = "object"

\* the schemas a document declares, wherever it declares them
DeclaredSchemas(d) ==
  IF HasKey(d, "definitions") THEN Get(d, "definitions")
  ELSE Get(Get(d, "components"), "schemas")

\* C21: every JSON document that has info.title, info.version and paths is
\* accepted, whether its schemas are under components.schemas or under
\* definitions, and the Document keeps the names of those schemas.
C21_AcceptsBothVersions ==
  pc = "done" /\ arg.case.malform = "none" /\ HasTitleVersionPaths(CaseDoc(arg.case)) =>
    /\ out.error = Null
    /\ out.apiDoc # Null
    /\ DeclaredSchemas(CaseDoc(arg.case)).k = "object" =>
         \A name \in SchemaNames :
           HasKey(DeclaredSchemas(CaseDoc(arg.case)), name)
             <=> HasKey(DeclaredSchemas(out.apiDoc), name)

-----------------------------------------------------------------------------
(* Properties of OpenAPIPage with files, under SpecFiles *)

\* C22: in every reachable state of OpenAPIPage, after any sequence of edits,
\* debounced parses, example selections, clears and file loads, apiDoc and
\* error are never both non-null.
C22_DocumentOrError == ~(ui.apiDoc # Null /\ ui.error # Null)

\* C22's case: a Document from a loaded file was displayed, and the debounced
\* parse of an ill-formed text typed over it has replaced it by an error
C22_Witness ==
  /\ last.op = "timer"
  /\ last.parsed = <<MalformedText>>
  /\ \E i \in 1..Len(reads) : reads[i].loaded
  /\ ui.error # Null
  /\ ui.apiDoc = Null

-----------------------------------------------------------------------------
(* Properties of OpenAPIPage as time passes, under SpecLive *)

\* the non-blank texts of the editor
NonBlankTexts == { t \in EditorTexts : ~IsBlank(t) }

\* what JSON.parse and OpenAPISchema.parse make of a text
ValidatedDocument(text) ==
  LET parsed == JSONparse(text) IN
  IF parsed.ok THEN Validate(OpenAPISchema, parsed.v, <<>>) ELSE [issues |-> <<"syntax">>]

\* (apiDoc, error) reflects the text: the validated Document and no error
\* when the text is valid, no Document and an error otherwise
Reflects(text) ==
  IF ValidatedDocument(text).issues = <<>>
  THEN ui.apiDoc = ValidatedDocument(text).value /\ ui.error = Null
  ELSE ui.apiDoc = Null /\ ui.error # Null

\* C23: if the input text stops changing while it is non-blank, then
\* eventually (the debounce timer has fired) apiDoc and error reflect the
\* current text, and stay so: no earlier Document remains displayed forever.
C23_EventuallyReflects ==
  \A t \in NonBlankTexts :
    <>[](mounted /\ ui.inputValue = t) => <>[](Reflects(t))

\* C23's case: a valid text was typed over the display of another text and
\* its timer has fired
C23_Witness ==
  /\ last.op = "timer"
  /\ last.parsed = <<Doc3Text>>
  /\ ui.inputValue = Doc3Text
  /\ Reflects(Doc3Text)
  /\ storage.inputValue = Doc3Text

-----------------------------------------------------------------------------
(* Properties of OpenAPIPage with the FloatingToolbar, under SpecToolbar *)

\* nothing is displayed and the toolbar modes are off
ShowsNothing(st) ==
  /\ st.apiDoc = Null
  /\ st.error = Null
  /\ ~st.isSelectionMode
  /\ ~st.copyWithDesc

\* C24: whenever the input text is blank and the effects have settled, apiDoc
\* and error are null and selection mode and copy-with-description are off;
\* and no parse is ever executed on a blank text.
C24_BlankShowsNothing ==
  /\ ~HasContent(ui) => ShowsNothing(ui)
  /\ \A i \in 1..Len(last.parsed) : ~IsBlank(last.parsed[i])

-----------------------------------------------------------------------------
(* Properties of mounting with a saved record, under Spec *)

\* the page has just mounted with a saved text that is non-blank and valid
MountedWithValidText ==
  /\ last.op = "mount"
  /\ ~IsBlank(storage.inputValue)
  /\ ValidatedDocument(storage.inputValue).issues = <<>>

\* C25: on mount with a persisted non-blank valid text, the parse of the load
\* effect takes effect: once the mount effects have settled, before any
\* debounce timer fires, apiDoc is the validated Document of the persisted text.
C25_LoadParseTakesEffect ==
  MountedWithValidText => ui.apiDoc = ValidatedDocument(storage.inputValue).value

\* C26: the persisted UI state round-trips across a reload: on mount with a
\* persisted record, once the mount effects and the debounced parse have
\* settled, inputValue, leftPanelWidth, isLeftPanelCollapsed, collapsedTags
\* and isNavVisible equal the persisted values, and the stored record equals
\* the record stored before the reload.
C26_RoundTrip ==
  [][ last.op = "mount" /\ last.loaded # Null /\ last'.op = "timer" =>
        /\ SavedState(ui') = last.loaded
        /\ storage' = last.loaded ]_vars

\* C27: in every reachable state of the page with the FloatingToolbar,
\* selection mode off implies that selectedApis is empty: the toolbar toggle,
\* the exit button, and clearing or blanking the input all leave it empty.
C27_NoSelectionOutsideSelectionMode == ~ui.isSelectionMode => ui.selectedApis = {}

-----------------------------------------------------------------------------
(* Collapse flags and tag buckets, under SpecParse *)

\* the own keys of an object
KeysOf(o) == { o.e[i][1] : i \in 1..Len(o.e) }

\* C28: after every successful parseOpenAPI, the tags with an initialised
\* collapse flag are exactly the bucket keys of pathsByTag of the same Document.
C28_CollapseFlagsMatchBuckets ==
  pc = "done" /\ out.apiDoc # Null =>
    KeysOf(out.collapsedTags) = KeysOf(pathsByTag(out.apiDoc))

-----------------------------------------------------------------------------
(* The batch copy against PathItem, under SpecCopy *)

\* what copyAllData of PathItem emits for a request example: the example
\* when it is truthy, nothing otherwise
EmittedRequest(requestExample) ==
  IF Thrown(requestExample) \/ Truthy(requestExample) THEN requestExample ELSE Null

\* what copyAllData of PathItem emits for a response example: its code and
\* example when the example is truthy, nothing otherwise
EmittedResponse(responseExample) ==
  IF Thrown(responseExample) THEN responseExample
  ELSE IF Truthy(Get(responseExample, "example"))
  THEN Obj(<< <<"code", Get(responseExample, "code")>>,
              <<"example", Get(responseExample, "example")>> >>)
  ELSE Null

\* C29: for every Document and every POST or PUT operation, the request and
\* response examples the batch copy emits (all copy options on) are the
\* getDefaultExample and getResponseExample of PathItem for that operation.
C29_BatchCopyAgrees ==
  pc = "done" =>
    /\ out.requestExample = EmittedRequest(getDefaultExample(arg.apiDoc, arg.item))
    /\ out.responseExample = EmittedResponse(getResponseExample(arg.apiDoc, arg.item))

-----------------------------------------------------------------------------
(* Two files handed to the page, under SpecFiles *)

\* two files were handed to the page, both reads have completed, and the
\* text on display is a file's
BothFilesRead ==
  /\ Len(reads) = 2
  /\ \A i \in 1..Len(reads) : reads[i].loaded
  /\ last.op \in {"onload", "timer"}
  /\ ui.inputValue \in FileTexts

\* C30: when two files are handed to the page one after the other, by upload
\* or by drop, then whatever order their reads complete in, the input text
\* ends equal to the content of the file chosen last, and the Document the
\* debounced parse displays is that file's.
C30_LastFileWins ==
  BothFilesRead =>
    /\ ui.inputValue = reads[2].content
    /\ last.op = "timer" => ui.apiDoc = ValidatedDocument(reads[2].content).value

====
